---- MODULE Spec2Model ----
(***************************************************************************)
(* A model of the mypython tree-walking interpreter: the expression        *)
(* evaluator (Parser.hpp), the Environment scope chain (Env.hpp, Env.cpp), *)
(* the Interpreter (Interpreter.cpp, Interpreter.hpp) and the Lexer        *)
(* (Lexer.cpp).                                                            *)
(*                                                                         *)
(* The specifications share the variables:                                 *)
(*   SpecEval  BinaryExpr::evaluate applied to two integer literals        *)
(*   SpecLex   Lexer::tokenize, one scanToken call per step                *)
(*   Spec      Interpreter::interpret called on root statements against    *)
(*             one Interpreter (one global environment)                    *)
(*   SpecMain  one run of main (mypython.cpp)                              *)
(*   SpecParse the cursor methods of Parser called in any order            *)
(***************************************************************************)
EXTENDS Integers, Sequences, FiniteSets, TLC

VARIABLES
    \* --- SpecEval: one BinaryExpr over two literals
    op,          \* BinaryExpr::op, a TokenType
    leftVal,     \* value of the left literal
    rightVal,    \* value of the right literal
    result,      \* outcome of evaluate(): [sig, val, msg]; sig = "none" before the call
    \* --- SpecLex: the Lexer object
    source,      \* Lexer::source, a sequence of characters
    start,       \* Lexer::start   (0-based index)
    current,     \* Lexer::current (0-based index)
    tokens,      \* Lexer::tokens, a sequence of [type, lexeme]
    tokStart,    \* history: for each token, the value of start when it was added
    lexState,    \* "scanning" | "returned" | "thrown" | "aborted"
    lastScan,    \* history: the handler the last scanToken call dispatched to
    farRead,     \* history: the largest index of source the last scanToken call
                 \* read with source[...] (-1 before the first call)
    \* --- Spec: the Interpreter object and the process around it
    envs,        \* the live Environment objects; envs[1] is globalEnvironment
    out,         \* what was written to std::cout, as a sequence of strings
    status,      \* "ok" | "error" | "return" | "abort": how the last interpret() ended
    errMsg,      \* what() of the exception that ended the last interpret(), or ""
    log,         \* history: the events of the last interpret() call
    steps,       \* number of interpret() calls made
    \* --- SpecMain: the process running main
    argc,        \* main's argc (the program name counts)
    fileOpens,   \* whether file.is_open() holds for argv[1]
    pc,          \* where main is: "start" | "lex" | "interpret" | "exited" |
                 \* "terminated" (an exception left main) | "crashed"
    ast,         \* the root parser.parse() returned
    cerr,        \* what main wrote to std::cerr, as a sequence of strings
    exitStatus,  \* "running" | "0" | "1" | "SIGABRT" | "signal"
    \* --- SpecParse: the Parser object
    parserTokens,   \* Parser::tokens, a sequence of [type, lexeme]
    parserCurrent,  \* Parser::current (0-based index)
    parserState,    \* "idle" | "ready" | "thrown" (consume threw: the parse is over)
    lastCall        \* history: the last utility method called, see ParserCall

evalVars == <<op, leftVal, rightVal, result>>
lexVars == <<source, start, current, tokens, tokStart, lexState, lastScan, farRead>>
intVars == <<envs, out, status, errMsg, log, steps>>
mainVars == <<argc, fileOpens, pc, ast, cerr, exitStatus>>
parseVars == <<parserTokens, parserCurrent, parserState, lastCall>>
vars == <<evalVars, lexVars, intVars, mainVars, parseVars>>

----------------------------------------------------------------------------
(* Bounds of the model *)

\* operands of SpecEval range over -MaxOperand..MaxOperand
MaxOperand == 7
\* sources of SpecLex have at most MaxSrcLen characters
MaxSrcLen == 4
\* a run of Spec makes at most MaxSteps interpret() calls
MaxSteps == 4
\* nested callFunction activations beyond this exhaust the host stack
MaxCallDepth == 3
\* source files of SpecMain have at most MaxFileLen characters
MaxFileLen == 1

----------------------------------------------------------------------------
(* Environment (Env.hpp, Env.cpp) *)

EmptyMap == [n \in {} |-> 0]

\* std::unordered_map operator[] assignment: m[k] = v
MapPut(m, k, v) == [n \in (DOMAIN m) \cup {k} |-> IF n = k THEN v ELSE m[n]]

\* Environment(Environment* parent = nullptr); parent 0 is nullptr
NewEnvironment(parent) == [values |-> EmptyMap, functions |-> EmptyMap, parent |-> parent]

\* mutant: a name the parent environment already defines is written there
Define_WriteThrough(es, e, name, value) ==
    IF /\ es[e].parent # 0
       /\ name \notin DOMAIN es[e].values
       /\ name \in DOMAIN es[es[e].parent].values
    THEN [es EXCEPT ![es[e].parent].values = [n \in (DOMAIN @) \cup {name} |->
                                                 IF n = name THEN value ELSE @[n]]]
    ELSE [es EXCEPT ![e].values = [n \in (DOMAIN @) \cup {name} |->
                                      IF n = name THEN value ELSE @[n]]]

\* Environment::define
Define(es, e, name, value) == [es EXCEPT ![e].values = MapPut(@, name, value)]

\* mutant: the lookup does not go on to the parent environment
Get_OwnOnly(es, e, name) ==
    IF name \in DOMAIN es[e].values
    THEN [found |-> TRUE, val |-> es[e].values[name]]
    ELSE [found |-> FALSE, val |-> 0]

\* mutant: the parent chain is asked first, the environment's own values last
RECURSIVE Get_OutermostFirst(_, _, _)
Get_OutermostFirst(es, e, name) ==
    IF es[e].parent # 0 /\ Get_OutermostFirst(es, es[e].parent, name).found
    THEN Get_OutermostFirst(es, es[e].parent, name)
    ELSE IF name \in DOMAIN es[e].values
         THEN [found |-> TRUE, val |-> es[e].values[name]]
         ELSE [found |-> FALSE, val |-> 0]

\* Environment::get: [found, val]; found = FALSE is the thrown runtime_error
RECURSIVE Get(_, _, _)
Get(es, e, name) ==
    IF name \in DOMAIN es[e].values
    THEN [found |-> TRUE, val |-> es[e].values[name]]
    ELSE IF es[e].parent # 0
         THEN Get(es, es[e].parent, name)
         ELSE [found |-> FALSE, val |-> 0]

\* mutant: a name the parent already holds is not overwritten (insert, not operator[])
MergeChanges_KeepExisting(es, p, c) ==
    [es EXCEPT ![p].values =
        [n \in (DOMAIN @) \cup (DOMAIN es[c].values) |->
            IF n \in DOMAIN @ THEN @[n] ELSE es[c].values[n]]]

\* Environment::mergeChanges: this = p, childEnv = c
MergeChanges(es, p, c) ==
    [es EXCEPT ![p].values =
        [n \in (DOMAIN @) \cup (DOMAIN es[c].values) |->
            IF n \in DOMAIN es[c].values THEN es[c].values[n] ELSE @[n]]]

\* Environment::defineFunction
DefineFunction(es, e, name, function) ==
    [es EXCEPT ![e].functions = MapPut(@, name, function)]

\* mutant: only the global environment is asked for the function
GetFunction_GlobalOnly(es, e, name) ==
    IF name \in DOMAIN es[1].functions
    THEN [found |-> TRUE, fn |-> es[1].functions[name]]
    ELSE [found |-> FALSE, fn |-> [name |-> name]]

\* Environment::getFunction: [found, fn]; found = FALSE is the thrown runtime_error
RECURSIVE GetFunction(_, _, _)
GetFunction(es, e, name) ==
    IF name \in DOMAIN es[e].functions
    THEN [found |-> TRUE, fn |-> es[e].functions[name]]
    ELSE IF es[e].parent # 0
         THEN GetFunction(es, es[e].parent, name)
         ELSE [found |-> FALSE, fn |-> [name |-> name]]

----------------------------------------------------------------------------
(* BinaryExpr::evaluate, the operator switch (Parser.hpp) *)

Abs(n) == IF n < 0 THEN -n ELSE n

\* C++ int division: the quotient truncated toward zero
TruncDiv(a, b) ==
    IF (a < 0) = (b < 0) THEN Abs(a) \div Abs(b) ELSE -(Abs(a) \div Abs(b))

\* C++ int remainder: a - (a / b) * b
TruncMod(a, b) == a - TruncDiv(a, b) * b

\* a bool converted to int
BoolToInt(p) == IF p THEN 1 ELSE 0

Value(v) == [sig |-> "value", val |-> v, msg |-> ""]
Throw(m) == [sig |-> "error", val |-> 0, msg |-> m]

\* mutant: the floor correction is left out
DivideOp_Truncating(l, r) ==
    IF r = 0 THEN Throw("Division by zero.") ELSE Value(TruncDiv(l, r))

\* mutant: the test for a zero divisor is left out
DivideOp_NoZeroCheck(l, r) ==
    IF r = 0 THEN Value(0)
    ELSE Value(IF ((l < 0) # (r < 0)) /\ (TruncMod(l, r) # 0)
               THEN TruncDiv(l, r) - 1 ELSE TruncDiv(l, r))

\* case TokenType::DIV
DivideOp(l, r) ==
    IF r = 0
    THEN Throw("Division by zero.")
    ELSE LET q == TruncDiv(l, r)
         IN  IF ((l < 0) # (r < 0)) /\ (TruncMod(l, r) # 0)
             THEN Value(q - 1)
             ELSE Value(q)

\* mutant: LESS and LESS_EQUAL exchanged
CompareOp_Swapped(o, l, r) ==
    CASE o = "EQUAL"         -> Value(BoolToInt(l = r))
      [] o = "LESS_EQUAL"    -> Value(BoolToInt(l < r))
      [] o = "LESS"          -> Value(BoolToInt(l <= r))
      [] o = "GREATER"       -> Value(BoolToInt(l > r))
      [] o = "GREATER_EQUAL" -> Value(BoolToInt(l >= r))
      [] OTHER               -> Throw("Unsupported binary operator.")

\* case TokenType::EQUAL .. GREATER_EQUAL, and default
CompareOp(o, l, r) ==
    CASE o = "EQUAL"         -> Value(BoolToInt(l = r))
      [] o = "LESS_EQUAL"    -> Value(BoolToInt(l <= r))
      [] o = "LESS"          -> Value(BoolToInt(l < r))
      [] o = "GREATER"       -> Value(BoolToInt(l > r))
      [] o = "GREATER_EQUAL" -> Value(BoolToInt(l >= r))
      [] OTHER               -> Throw("Unsupported binary operator.")

\* switch (op) of BinaryExpr::evaluate
ApplyBinary(o, l, r) ==
    CASE o = "PLUS"  -> Value(l + r)
      [] o = "MINUS" -> Value(l - r)
      [] o = "MUL"   -> Value(l * r)
      [] o = "DIV"   -> DivideOp(l, r)
      [] OTHER       -> CompareOp(o, l, r)

----------------------------------------------------------------------------
(* AST nodes (Parser.hpp): records tagged with the class of the node *)

NullNode == [kind |-> "null"]
Lit(v) == [kind |-> "Literal", value |-> v]
Str(s) == [kind |-> "StringLiteral", text |-> s]
Var(n) == [kind |-> "Var", name |-> n]
Asg(n, x) == [kind |-> "Assign", name |-> n, rhs |-> x]
Bin(l, o, r) == [kind |-> "Binary", left |-> l, op |-> o, right |-> r]
Call(f, args) == [kind |-> "Call", functionName |-> f, arguments |-> args]
ExprS(x) == [kind |-> "ExpressionStmt", expression |-> x]
AssignS(n, x) == [kind |-> "AssignStmt", name |-> n, rhs |-> x]
PrintS(xs) == [kind |-> "Print", expressions |-> xs]
IfS(c, t, f) == [kind |-> "If", condition |-> c, ifBranch |-> t, elseBranch |-> f]
BlockS(ss) == [kind |-> "Block", statements |-> ss]
FuncS(n, ps, b) == [kind |-> "Function", name |-> n, parameters |-> ps, body |-> b]
RetS(x) == [kind |-> "Return", returnValue |-> x]

----------------------------------------------------------------------------
(* Evaluation and execution.  m = [envs, out, log, depth] is the state the  *)
(* calls thread through; every result is [m, sig, val, msg] where sig is    *)
(* "value" (an expression's int), "normal" (a statement ran to its end),    *)
(* "return" (a ReturnValue in flight), "error" (a std::runtime_error in     *)
(* flight) or "abort" (the host stack is exhausted).  msg is what() of the  *)
(* runtime_error without the quoted name the code splices into it.          *)

Res(m, sig, val, msg) == [m |-> m, sig |-> sig, val |-> val, msg |-> msg]
Logged(m, ev) == [m EXCEPT !.log = Append(@, ev)]

\* the values maps of the scope chain of e, innermost first (history only)
RECURSIVE ChainOf(_, _)
ChainOf(es, e) ==
    IF e = 0 THEN << >> ELSE <<es[e].values>> \o ChainOf(es, es[e].parent)

RECURSIVE Evaluate(_, _, _)
RECURSIVE Execute(_, _, _)
RECURSIVE CallFunction(_, _, _, _)

\* a result r = [sig, val, msg] of the operator switch, in state m
ResOf(m, r) == Res(m, r.sig, r.val, r.msg)

\* LiteralExpr::evaluate
LiteralExprEvaluate(expr, m, e) == Res(m, "value", expr.value, "")

\* StringLiteralExpr::evaluate
StringLiteralExprEvaluate(expr, m, e) == Res(m, "value", 0, "")

\* VarExpr::evaluate, given the outcome g of env.get(name)
VarExprResult(expr, m, e, g) ==
    IF g.found
    THEN Res(Logged(m, [ev |-> "var", name |-> expr.name, chain |-> ChainOf(m.envs, e),
                        depth |-> m.depth,
                        found |-> TRUE, val |-> g.val]),
             "value", g.val, "")
    ELSE Res(Logged(m, [ev |-> "var", name |-> expr.name, chain |-> ChainOf(m.envs, e),
                        depth |-> m.depth,
                        found |-> FALSE, val |-> 0]),
             "error", 0, "Variable is not defined.")

\* VarExpr::evaluate
VarExprEvaluate(expr, m, e) == VarExprResult(expr, m, e, Get(m.envs, e, expr.name))

\* history: the environments before and after env.define(name, val); m0 is the
\* state in which AssignExpr::evaluate was entered, m the state after the
\* right-hand side was evaluated
DefineEvent(expr, m0, m, e, val, es) ==
    [ev |-> "define", env |-> e, name |-> expr.name, val |-> val, depth |-> m.depth,
     pre |-> m.envs, post |-> es,
     from |-> Len(m0.log) + 1, entry |-> m0.envs, rhsKind |-> expr.rhs.kind]

\* AssignExpr::evaluate after env.define(name, val) left the environments es
AssignExprDefined(expr, m0, v, e, es) ==
    Res(Logged([v.m EXCEPT !.envs = es], DefineEvent(expr, m0, v.m, e, v.val, es)),
        "value", v.val, "")

\* AssignExpr::evaluate, given the outcome v of value->evaluate(env)
AssignExprDefine(expr, m0, v, e) ==
    IF v.sig # "value"
    THEN v
    ELSE AssignExprDefined(expr, m0, v, e, Define(v.m.envs, e, expr.name, v.val))

\* mutant: the name is defined (as 0) before the right-hand side is evaluated
AssignExprEvaluate_DefineFirst(expr, m, e) ==
    AssignExprDefine(expr, m,
                     Evaluate(expr.rhs, [m EXCEPT !.envs = Define(@, e, expr.name, 0)], e),
                     e)

\* AssignExpr::evaluate
AssignExprEvaluate(expr, m, e) == AssignExprDefine(expr, m, Evaluate(expr.rhs, m, e), e)

\* BinaryExpr::evaluate, given the outcomes l and r of the two operands
BinaryExprApply(expr, l, r) ==
    IF r.sig # "value" THEN r ELSE ResOf(r.m, ApplyBinary(expr.op, l.val, r.val))

\* BinaryExpr::evaluate, given the outcome l of left->evaluate(env)
BinaryExprRight(expr, l, e) ==
    IF l.sig # "value" THEN l ELSE BinaryExprApply(expr, l, Evaluate(expr.right, l.m, e))

\* BinaryExpr::evaluate
BinaryExprEvaluate(expr, m, e) == BinaryExprRight(expr, Evaluate(expr.left, m, e), e)

\* CallExpr::convertArgumentsToValues: [m, sig, vals, msg]
RECURSIVE ConvertArgumentsToValues(_, _, _, _, _)

\* result.push_back(arg->evaluate(env)), given the outcome v of the evaluation
ConvertPushBack(args, i, acc, v, e) ==
    IF v.sig # "value"
    THEN [m |-> v.m, sig |-> v.sig, vals |-> acc, msg |-> v.msg]
    ELSE ConvertArgumentsToValues(args, i + 1, Append(acc, v.val), v.m, e)

ConvertArgumentsToValues(args, i, acc, m, e) ==
    IF i > Len(args)
    THEN [m |-> m, sig |-> "value", vals |-> acc, msg |-> ""]
    ELSE ConvertPushBack(args, i, acc, Evaluate(args[i], m, e), e)

\* CallExpr::evaluate, given the outcome a of convertArgumentsToValues
CallExprCall(expr, a, e) ==
    IF a.sig # "value"
    THEN Res(a.m, a.sig, 0, a.msg)
    ELSE CallFunction(expr.functionName, a.vals, a.m, e)

\* CallExpr::evaluate
CallExprEvaluate(expr, m, e) ==
    CallExprCall(expr, ConvertArgumentsToValues(expr.arguments, 1, << >>, m, e), e)

Evaluate(expr, m, e) ==
    CASE expr.kind = "Literal"       -> LiteralExprEvaluate(expr, m, e)
      [] expr.kind = "StringLiteral" -> StringLiteralExprEvaluate(expr, m, e)
      [] expr.kind = "Var"           -> VarExprEvaluate(expr, m, e)
      [] expr.kind = "Assign"        -> AssignExprEvaluate(expr, m, e)
      [] expr.kind = "Binary"        -> BinaryExprEvaluate(expr, m, e)
      [] expr.kind = "Call"          -> CallExprEvaluate(expr, m, e)

\* mutant: the parameters are defined in the parent of localEnvironment
RECURSIVE BindParameters_IntoParent(_, _, _, _, _)
BindParameters_IntoParent(es, local, parameters, arguments, i) ==
    IF i > Len(arguments)
    THEN es
    ELSE BindParameters_IntoParent(Define(es, es[local].parent, parameters[i], arguments[i]),
                                   local, parameters, arguments, i + 1)

\* the parameter-binding loop of Interpreter::callFunction
RECURSIVE BindParameters(_, _, _, _, _)
BindParameters(es, local, parameters, arguments, i) ==
    IF i > Len(arguments)
    THEN es
    ELSE BindParameters(Define(es, local, parameters[i], arguments[i]),
                        local, parameters, arguments, i + 1)

\* the Environment local and everything created after it leave scope
Destroy(m, local) == [m EXCEPT !.envs = SubSeq(@, 1, local - 1)]

\* Interpreter::callFunction is left: localEnvironment is destroyed
Leave(m, local) == [Destroy(m, local) EXCEPT !.depth = @ - 1]

\* history: how the call ended (r), the function getFunction gave (fn), the
\* values of localEnvironment at that moment and the stage the call reached:
\* "resolving" (getFunction threw), "binding" (localEnvironment was
\* constructed, the arity test threw), "stack" (no room for the body's
\* activation) or "body" (the body was started)
CallDone(name, arguments, m, currentEnv, fn, r, localValues, stage) ==
    [r EXCEPT !.m = Logged(@,
        [ev |-> "call", name |-> name, nargs |-> Len(arguments), site |-> currentEnv,
         depth |-> m.depth + 1, pre |-> m.envs, post |-> r.m.envs,
         sig |-> r.sig, val |-> r.val, msg |-> r.msg, fn |-> fn, stage |-> stage,
         localValues |-> localValues, bodyRan |-> (stage = "body"),
         from |-> Len(m.log) + 1])]

\* mutant: the catch of callFunction yields 0 instead of the carried value
CallBodyDone_DropsValue(name, arguments, m, currentEnv, fn, b) ==
    CallDone(name, arguments, m, currentEnv, fn,
             CASE b.sig \in {"return", "normal"} ->
                      Res(Leave(b.m, Len(m.envs) + 1), "value", 0, "")
               [] OTHER -> Res(Leave(b.m, Len(m.envs) + 1), b.sig, 0, b.msg),
             b.m.envs[Len(m.envs) + 1].values, "body")

\* Interpreter::callFunction, the try/catch around the body; b is the body's outcome
CallBodyDone(name, arguments, m, currentEnv, fn, b) ==
    CallDone(name, arguments, m, currentEnv, fn,
             CASE b.sig = "return" -> Res(Leave(b.m, Len(m.envs) + 1), "value", b.val, "")
               [] b.sig = "normal" -> Res(Leave(b.m, Len(m.envs) + 1), "value", 0, "")
               [] OTHER            -> Res(Leave(b.m, Len(m.envs) + 1), b.sig, 0, b.msg),
             b.m.envs[Len(m.envs) + 1].values, "body")

\* mutant: only a call with too many arguments is rejected
CallEntered_TooManyOnly(name, arguments, m, currentEnv, fn, m1) ==
    IF Len(arguments) > Len(fn.parameters)
    THEN CallDone(name, arguments, m, currentEnv, fn,
                  Res(Leave(m1, Len(m.envs) + 1), "error", 0,
                      "Incorrect number of arguments provided to function."),
                  m1.envs[Len(m.envs) + 1].values, "binding")
    ELSE IF m.depth >= MaxCallDepth
    THEN CallDone(name, arguments, m, currentEnv, fn,
                  Res(Leave(m1, Len(m.envs) + 1), "abort", 0, "stack exhausted"),
                  EmptyMap, "stack")
    ELSE CallBodyDone(name, arguments, m, currentEnv, fn,
                      Execute(fn.body,
                              [m1 EXCEPT !.envs = BindParameters(@, Len(m.envs) + 1,
                                                      fn.parameters, arguments, 1)],
                              Len(m.envs) + 1))

\* Interpreter::callFunction from the construction of localEnvironment on;
\* m1 is the state with localEnvironment constructed
CallEntered(name, arguments, m, currentEnv, fn, m1) ==
    IF Len(arguments) # Len(fn.parameters)
    THEN CallDone(name, arguments, m, currentEnv, fn,
                  Res(Leave(m1, Len(m.envs) + 1), "error", 0,
                      "Incorrect number of arguments provided to function."),
                  m1.envs[Len(m.envs) + 1].values, "binding")
    ELSE IF m.depth >= MaxCallDepth
    THEN CallDone(name, arguments, m, currentEnv, fn,
                  Res(Leave(m1, Len(m.envs) + 1), "abort", 0, "stack exhausted"),
                  EmptyMap, "stack")
    ELSE CallBodyDone(name, arguments, m, currentEnv, fn,
                      Execute(fn.body,
                              [m1 EXCEPT !.envs = BindParameters(@, Len(m.envs) + 1,
                                                      fn.parameters, arguments, 1)],
                              Len(m.envs) + 1))

\* mutant: localEnvironment's parent is the global environment
CallResolved_GlobalParent(name, arguments, m, currentEnv, f) ==
    IF ~f.found
    THEN CallDone(name, arguments, m, currentEnv, f.fn,
                  Res(m, "error", 0, "Function is not defined."), EmptyMap, "resolving")
    ELSE CallEntered(name, arguments, m, currentEnv, f.fn,
                     [m EXCEPT !.envs = Append(@, NewEnvironment(1)),
                               !.depth = @ + 1])

\* Interpreter::callFunction, given the outcome f of currentEnv.getFunction(name)
CallResolved(name, arguments, m, currentEnv, f) ==
    IF ~f.found
    THEN CallDone(name, arguments, m, currentEnv, f.fn,
                  Res(m, "error", 0, "Function is not defined."), EmptyMap, "resolving")
    ELSE CallEntered(name, arguments, m, currentEnv, f.fn,
                     [m EXCEPT !.envs = Append(@, NewEnvironment(currentEnv)),
                               !.depth = @ + 1])

\* Interpreter::callFunction
CallFunction(name, arguments, m, currentEnv) ==
    CallResolved(name, arguments, m, currentEnv, GetFunction(m.envs, currentEnv, name))

\* Interpreter::executeBlock: a ReturnValue caught here is rethrown unchanged
RECURSIVE ExecuteFrom(_, _, _, _)

\* mutant: a ReturnValue caught in executeBlock is dropped and the loop goes on
ExecuteNext_SwallowReturn(statements, i, r, e) ==
    IF r.sig \in {"normal", "return"}
    THEN ExecuteFrom(statements, i + 1, r.m, e)
    ELSE r

\* the loop of executeBlock after statement i ended with outcome r
ExecuteNext(statements, i, r, e) ==
    IF r.sig # "normal" THEN r ELSE ExecuteFrom(statements, i + 1, r.m, e)

ExecuteFrom(statements, i, m, e) ==
    IF i > Len(statements)
    THEN Res(m, "normal", 0, "")
    ELSE ExecuteNext(statements, i, Execute(statements[i], m, e), e)

ExecuteBlock(statements, m, environment) == ExecuteFrom(statements, 1, m, environment)

\* an expression evaluated for effect: the value v is dropped
Discard(v) == IF v.sig # "value" THEN v ELSE Res(v.m, "normal", 0, "")

\* ExpressionStmt::execute
ExpressionStmtExecute(stmt, m, e) == Discard(Evaluate(stmt.expression, m, e))

\* AssignStmt::execute, given the outcome v of the evaluation of the value
AssignStmtDefine(stmt, v, e) ==
    IF v.sig # "value"
    THEN v
    ELSE Res([v.m EXCEPT !.envs = Define(@, e, stmt.name, v.val)], "normal", 0, "")

\* AssignStmt::execute
AssignStmtExecute(stmt, m, e) == AssignStmtDefine(stmt, Evaluate(stmt.rhs, m, e), e)

\* PrintStmt::execute, the loop over the expressions
RECURSIVE PrintFrom(_, _, _, _)

\* std::cout << expr->evaluate(env) << " ", given the outcome v of the evaluation
PrintValue(expressions, i, v, e) ==
    IF v.sig # "value"
    THEN v
    ELSE PrintFrom(expressions, i + 1,
                   [v.m EXCEPT !.out = @ \o <<ToString(v.val), " ">>], e)

\* mutant: a string literal is evaluated like every other expression
PrintFrom_EvaluatesStrings(expressions, i, m, e) ==
    IF i > Len(expressions)
    THEN Res([m EXCEPT !.out = Append(@, "\n")], "normal", 0, "")
    ELSE PrintValue(expressions, i, Evaluate(expressions[i], m, e), e)

PrintFrom(expressions, i, m, e) ==
    IF i > Len(expressions)
    THEN Res([m EXCEPT !.out = Append(@, "\n")], "normal", 0, "")
    ELSE IF expressions[i].kind = "StringLiteral"
         THEN PrintFrom(expressions, i + 1,
                        [m EXCEPT !.out = @ \o <<expressions[i].text, " ">>], e)
         ELSE PrintValue(expressions, i, Evaluate(expressions[i], m, e), e)

\* history: what the statement wrote (out from pre to post) and how it ended (r)
PrintDone(stmt, m, e, r) ==
    [r EXCEPT !.m = Logged(@,
        [ev |-> "print", expressions |-> stmt.expressions, depth |-> m.depth,
         chain |-> ChainOf(m.envs, e), pre |-> m.out, post |-> r.m.out, sig |-> r.sig])]

\* PrintStmt::execute
PrintStmtExecute(stmt, m, e) == PrintDone(stmt, m, e, PrintFrom(stmt.expressions, 1, m, e))

\* IfStmt::execute, given the outcome c of the evaluation of the condition
IfStmtBranch(stmt, c, e) ==
    IF c.sig # "value"
    THEN c
    ELSE IF c.val # 0
         THEN Execute(stmt.ifBranch, c.m, e)
         ELSE IF stmt.elseBranch.kind # "null"
              THEN Execute(stmt.elseBranch, c.m, e)
              ELSE Res(c.m, "normal", 0, "")

\* IfStmt::execute
IfStmtExecute(stmt, m, e) == IfStmtBranch(stmt, Evaluate(stmt.condition, m, e), e)

\* history: the block's environments when it is left
BlockEvent(m, e, r, mExit) ==
    [ev |-> "blockExit", sig |-> r.sig, parent |-> e, depth |-> m.depth,
     pre |-> m.envs[e].values, child |-> r.m.envs[Len(m.envs) + 1].values,
     post |-> mExit.envs[e].values]

\* BlockStmt::execute, given the outcome r of executeBlock on the child environment
BlockStmtExit(m, e, r) ==
    IF r.sig = "normal"
    THEN Res(Logged(Destroy([r.m EXCEPT !.envs = MergeChanges(@, e, Len(m.envs) + 1)],
                            Len(m.envs) + 1),
                    BlockEvent(m, e, r,
                               [r.m EXCEPT !.envs = MergeChanges(@, e, Len(m.envs) + 1)])),
             r.sig, r.val, r.msg)
    ELSE Res(Logged(Destroy(r.m, Len(m.envs) + 1), BlockEvent(m, e, r, r.m)),
             r.sig, r.val, r.msg)

\* BlockStmt::execute
BlockStmtExecute(stmt, m, e) ==
    BlockStmtExit(m, e,
                  ExecuteBlock(stmt.statements,
                               [m EXCEPT !.envs = Append(@, NewEnvironment(e))],
                               Len(m.envs) + 1))

\* the function definition a FunctionStmt stands for
FunctionOf(stmt) ==
    [name |-> stmt.name, parameters |-> stmt.parameters, body |-> stmt.body]

\* history: the environments before and after a function was defined in e
DefunEvent(stmt, m, e, es) ==
    [ev |-> "defun", env |-> e, name |-> stmt.name, fn |-> FunctionOf(stmt),
     pre |-> m.envs, post |-> es]

\* FunctionStmt::execute, given the environments es after the definition
FunctionStmtDefined(stmt, m, e, es) ==
    Res(Logged([m EXCEPT !.envs = es], DefunEvent(stmt, m, e, es)), "normal", 0, "")

\* FunctionStmt::execute
FunctionStmtExecute(stmt, m, e) ==
    FunctionStmtDefined(stmt, m, e, DefineFunction(m.envs, e, stmt.name, FunctionOf(stmt)))

\* throw ReturnValue(value), given the outcome v of the evaluation of the value
ReturnStmtRaise(m, v) ==
    IF v.sig # "value"
    THEN v
    ELSE Res(Logged(v.m, [ev |-> "raise", val |-> v.val, depth |-> m.depth]),
             "return", v.val, "")

\* ReturnStmt::execute
ReturnStmtExecute(stmt, m, e) ==
    IF stmt.returnValue.kind = "null"
    THEN ReturnStmtRaise(m, Res(m, "value", 0, ""))
    ELSE ReturnStmtRaise(m, Evaluate(stmt.returnValue, m, e))

\* the statement about to run is recorded (history), then it runs
Execute(stmt, m, e) ==
    LET m0 == Logged(m, [ev |-> "exec", kind |-> stmt.kind, env |-> e, depth |-> m.depth])
    IN  CASE stmt.kind = "ExpressionStmt" -> ExpressionStmtExecute(stmt, m0, e)
          [] stmt.kind = "AssignStmt"     -> AssignStmtExecute(stmt, m0, e)
          [] stmt.kind = "Print"          -> PrintStmtExecute(stmt, m0, e)
          [] stmt.kind = "If"             -> IfStmtExecute(stmt, m0, e)
          [] stmt.kind = "Block"          -> BlockStmtExecute(stmt, m0, e)
          [] stmt.kind = "Function"       -> FunctionStmtExecute(stmt, m0, e)
          [] stmt.kind = "Return"         -> ReturnStmtExecute(stmt, m0, e)

----------------------------------------------------------------------------
(* Values the variables of a specification hold while another one runs *)

EvalIdle ==
    /\ op = "PLUS" /\ leftVal = 0 /\ rightVal = 0
    /\ result = [sig |-> "none", val |-> 0, msg |-> ""]

LexIdle ==
    /\ source = << >> /\ start = 0 /\ current = 0
    /\ tokens = << >> /\ tokStart = << >>
    /\ lexState = "idle" /\ lastScan = "none" /\ farRead = -1

IntIdle ==
    /\ envs = <<NewEnvironment(0)>> /\ out = << >>
    /\ status = "idle" /\ errMsg = "" /\ log = << >> /\ steps = 0

MainIdle ==
    /\ argc = 0 /\ fileOpens = FALSE /\ pc = "idle"
    /\ ast = NullNode /\ cerr = << >> /\ exitStatus = "running"

ParseIdle ==
    /\ parserTokens = << >> /\ parserCurrent = 0
    /\ parserState = "idle" /\ lastCall = [op |-> "none"]

\* the state of a fresh Interpreter: Interpreter() : globalEnvironment() {}
NewMachine == [envs |-> <<NewEnvironment(0)>>, out |-> << >>, log |-> << >>, depth |-> 0]

----------------------------------------------------------------------------
(* SpecEval: BinaryExpr::evaluate on two integer literals *)

\* the operator tags the parser's expression rules put on a BinaryExpr
BinaryOps ==
    {"PLUS", "MINUS", "MUL", "DIV", "EQUAL", "NOT_EQUAL",
     "LESS", "LESS_EQUAL", "GREATER", "GREATER_EQUAL"}

Operands == (-MaxOperand)..MaxOperand

InitEval ==
    /\ op \in BinaryOps
    /\ leftVal \in Operands
    /\ rightVal \in Operands
    /\ result = [sig |-> "none", val |-> 0, msg |-> ""]
    /\ LexIdle /\ IntIdle /\ MainIdle /\ ParseIdle

\* BinaryExpr(Literal leftVal, op, Literal rightVal).evaluate(env)
EvaluateBinary ==
    /\ result.sig = "none"
    /\ LET r == Evaluate(Bin(Lit(leftVal), op, Lit(rightVal)), NewMachine, 1)
       IN  result' = [sig |-> r.sig, val |-> r.val, msg |-> r.msg]
    /\ UNCHANGED <<op, leftVal, rightVal, lexVars, intVars, mainVars, parseVars>>

NextEval == EvaluateBinary

SpecEval == InitEval /\ [][NextEval]_vars

----------------------------------------------------------------------------
(* Properties of BinaryExpr::evaluate *)

\* q is the floor of a/b: the integer q with q <= a/b < q + 1
IsFloorOf(q, a, b) ==
    IF b > 0
    THEN q * b <= a /\ a < (q + 1) * b
    ELSE q * b >= a /\ a > (q + 1) * b

\* C1: for all integers a and b # 0 of the range, evaluating a DIV node on a
\* and b yields the mathematical floor of a/b (rounded toward negative
\* infinity), whatever the signs and whether or not the division is exact.
C1_FloorDivision ==
    (result.sig # "none" /\ op = "DIV" /\ rightVal # 0)
        => (result.sig = "value" /\ IsFloorOf(result.val, leftVal, rightVal))

\* the inexact division -7 / 2 has been evaluated, to -4
C1_Witness ==
    /\ result.sig = "value" /\ op = "DIV"
    /\ leftVal = -7 /\ rightVal = 2 /\ result.val = -4

\* C2: evaluating a DIV node whose right operand is 0 fails with the
\* division-by-zero error and yields no integer, for every left operand.
C2_DivisionByZero ==
    (result.sig # "none" /\ op = "DIV" /\ rightVal = 0)
        => (result.sig = "error" /\ result.msg = "Division by zero.")

\* a division of a negative number by zero has been evaluated
C2_Witness ==
    result.sig = "error" /\ op = "DIV" /\ rightVal = 0 /\ leftVal < 0

ComparisonOps == {"EQUAL", "LESS", "LESS_EQUAL", "GREATER", "GREATER_EQUAL"}

\* the relation a comparison operator stands for
Related(o, a, b) ==
    \/ o = "EQUAL" /\ a = b
    \/ o = "LESS" /\ a < b
    \/ o = "LESS_EQUAL" /\ (a < b \/ a = b)
    \/ o = "GREATER" /\ b < a
    \/ o = "GREATER_EQUAL" /\ (b < a \/ a = b)

\* C7: for ==, <, <=, >, >= the binary node yields exactly 1 when the
\* relation holds between the operands and exactly 0 when it does not.
C7_ComparisonZeroOne ==
    (result.sig # "none" /\ op \in ComparisonOps)
        => /\ result.sig = "value"
           /\ result.val \in {0, 1}
           /\ (result.val = 1) <=> Related(op, leftVal, rightVal)

\* 3 < 5 has been evaluated to 1
C7_Witness ==
    /\ result.sig = "value" /\ op = "LESS"
    /\ leftVal = 3 /\ rightVal = 5 /\ result.val = 1

----------------------------------------------------------------------------
(* SpecLex: the Lexer (Lexer.cpp).  Characters are one-character strings;   *)
(* "NUL" stands for the terminating '\0' that std::string::operator[]       *)
(* yields at index length().  Indices are 0-based as in the source.         *)

\* the characters sources are drawn from: a digit, two letters (they spell the
\* keyword if), blank, quote, backslash, the four operator characters with a
\* lookahead, the comment sign, newline, a one-character operator and a
\* character no rule knows
Alphabet == {"1", "i", "f", " ", "\"", "\\", ">", "<", "=", "!", "#", "\n", "+", "@"}

Digits == {"0", "1", "2", "3", "4", "5", "6", "7", "8", "9"}
Letters ==
    {"a", "b", "c", "d", "e", "f", "g", "h", "i", "j", "k", "l", "m",
     "n", "o", "p", "q", "r", "s", "t", "u", "v", "w", "x", "y", "z",
     "A", "B", "C", "D", "E", "F", "G", "H", "I", "J", "K", "L", "M",
     "N", "O", "P", "Q", "R", "S", "T", "U", "V", "W", "X", "Y", "Z"}

\* <cctype> in the C locale
IsDigit(c) == c \in Digits
IsAlpha(c) == c \in Letters
IsAlnum(c) == IsDigit(c) \/ IsAlpha(c)
IsSpace(c) == c \in {" ", "\t", "\n", "\f", "\r"}

\* source[i] for 0 <= i <= source.length()
CharAt(i) == IF i < Len(source) THEN source[i + 1] ELSE "NUL"

\* what a read of source[i] with i > source.length() can do (undefined
\* behaviour): yield a stray blank, a stray letter or a stray NUL, or end the
\* process
StrayReads == {" ", "x", "NUL", "ABORT"}

\* the outcomes of a read of source[i]
ReadOutcomes(i) == IF i <= Len(source) THEN {CharAt(i)} ELSE StrayReads

\* Lexer::isAtEnd with current = c
AtEnd(c) == c >= Len(source)

\* Lexer::peek with current = c
Peek(c) == IF AtEnd(c) THEN "NUL" ELSE source[c + 1]

\* std::string::substr(pos, n) on source, pos <= length()
Substr(pos, n) ==
    SubSeq(source, pos + 1, IF pos + n < Len(source) THEN pos + n ELSE Len(source))

\* Token(type, lexeme)
Token(type, lexeme) == [type |-> type, lexeme |-> lexeme]

\* mutant: the token is put in front of the tokens
AddToken_Front(toks, type, text) == <<Token(type, text)>> \o toks

\* Lexer::addToken
AddToken(toks, type, text) == Append(toks, Token(type, text))

\* the single-character tokens of scanToken
SingleCharType(c) ==
    CASE c = "+" -> "PLUS"
      [] c = "-" -> "MINUS"
      [] c = "*" -> "MUL"
      [] c = "/" -> "DIV"
      [] c = "(" -> "LPAREN"
      [] c = ")" -> "RPAREN"
      [] c = "," -> "COMMA"
      [] c = ":" -> "COLON"

SingleChars == {"+", "-", "*", "/", "(", ")", ",", ":"}

\* the characters scanToken has a case for
CaseChars == SingleChars \cup {">", "<", "!", "=", "\"", "#"}

\* the keywords map of tokenizeIdentifier
KeywordType(text) ==
    CASE text = <<"p", "r", "i", "n", "t">> -> "PRINT"
      [] text = <<"i", "f">>                -> "IF"
      [] text = <<"e", "l", "s", "e">>      -> "ELSE"
      [] OTHER                              -> "IDENTIFIER"

\* while (isdigit(peek())) advance(): the value of current after the loop
RECURSIVE DigitRunEnd(_)
DigitRunEnd(c) == IF IsDigit(Peek(c)) THEN DigitRunEnd(c + 1) ELSE c

\* while (isalnum(peek())) advance(): the value of current after the loop
RECURSIVE AlnumRunEnd(_)
AlnumRunEnd(c) == IF IsAlnum(Peek(c)) THEN AlnumRunEnd(c + 1) ELSE c

\* while (peek() != '\n' && !isAtEnd()) advance(): current after the loop
RECURSIVE CommentEnd(_)
CommentEnd(c) == IF Peek(c) # "\n" /\ ~AtEnd(c) THEN CommentEnd(c + 1) ELSE c

\* mutant: the loop of tokenizeString without the escape character
RECURSIVE StringLoopEnd_NoEscape(_)
StringLoopEnd_NoEscape(c) ==
    IF Peek(c) # "\"" /\ ~AtEnd(c) THEN StringLoopEnd_NoEscape(c + 1) ELSE c

\* the loop of tokenizeString: current after the loop
RECURSIVE StringLoopEnd(_)
StringLoopEnd(c) ==
    IF Peek(c) # "\"" /\ ~AtEnd(c)
    THEN IF Peek(c) = "\\" THEN StringLoopEnd(c + 2) ELSE StringLoopEnd(c + 1)
    ELSE c

\* while (!isspace(source[lookahead])) lookahead++ of tokenizeNumber: the
\* index the loop stops at, or -1 when it runs past source[length()]
RECURSIVE LookaheadStop(_)
LookaheadStop(la) ==
    IF la > Len(source)
    THEN -1
    ELSE IF IsSpace(CharAt(la)) THEN la ELSE LookaheadStop(la + 1)

InitLex ==
    /\ source \in UNION {[1..n -> Alphabet] : n \in 0..MaxSrcLen}
    /\ start = 0
    /\ current = 0
    /\ tokens = << >>
    /\ tokStart = << >>
    /\ lexState = "scanning"
    /\ lastScan = "none"
    /\ farRead = -1
    /\ EvalIdle /\ IntIdle /\ MainIdle /\ ParseIdle

\* a loop `while (... peek() ...) advance()` left current at c: the largest
\* index it read (peek() reads nothing at the end)
LastGuarded(c) == IF AtEnd(c) THEN c - 1 ELSE c

\* the loop test of tokenize holds and scanToken's advance() yields c
Scanning(c) == lexState = "scanning" /\ ~AtEnd(current) /\ source[current + 1] = c

\* start = current; scanToken() adds one token and leaves current at cur
Emit(handler, type, text, cur) ==
    /\ start' = current
    /\ current' = cur
    /\ tokens' = AddToken(tokens, type, text)
    /\ tokStart' = Append(tokStart, current)
    /\ lexState' = "scanning"
    /\ lastScan' = handler
    /\ UNCHANGED <<source, evalVars, intVars, mainVars, parseVars>>

\* start = current; scanToken() adds no token and leaves current at cur
Skip(handler, cur) ==
    /\ start' = current
    /\ current' = cur
    /\ lexState' = "scanning"
    /\ lastScan' = handler
    /\ UNCHANGED <<source, tokens, tokStart, evalVars, intVars, mainVars, parseVars>>

\* start = current; scanToken() does not return: s is "thrown" or "aborted"
Fail(handler, cur, s) ==
    /\ start' = current
    /\ current' = cur
    /\ lexState' = s
    /\ lastScan' = handler
    /\ UNCHANGED <<source, tokens, tokStart, evalVars, intVars, mainVars, parseVars>>

\* case '+' ... case ':'
ScanSingle ==
    /\ \E c \in SingleChars :
           /\ Scanning(c)
           /\ Emit("single", SingleCharType(c), <<c>>, current + 1)
    /\ farRead' = current

\* tokenizeGreater, tokenizeLess, tokenizeEqual: the character after the next
\* one decides between the compound token and the single one
ScanCompound(handler, c, compoundType, compoundText, singleType) ==
    /\ Scanning(c)
    /\ \E la \in ReadOutcomes(current + 2) :
           IF la = "ABORT"
           THEN Fail(handler, current + 1, "aborted")
           ELSE IF la = " "
                THEN Emit(handler, compoundType, compoundText, current + 2)
                ELSE Emit(handler, singleType, <<c>>, current + 1)
    /\ farRead' = current + 2

\* case '>': tokenizeGreater
ScanGreater ==
    /\ lexState = "scanning"
    /\ ScanCompound("greater", ">", "GREATER_EQUAL", <<">", "=">>, "GREATER")

\* case '<': tokenizeLess
ScanLess ==
    /\ lexState = "scanning"
    /\ ScanCompound("less", "<", "LESS_EQUAL", <<"<", "=">>, "LESS")

\* case '=': tokenizeEqual
ScanEqual ==
    /\ lexState = "scanning"
    /\ ScanCompound("equal", "=", "EQUAL", <<"=", "=">>, "ASSIGN")

\* case '!': tokenizeNotEqual
ScanNotEqual ==
    /\ Scanning("!")
    /\ \E la \in ReadOutcomes(current + 2) :
           IF la = "ABORT"
           THEN Fail("notEqual", current + 1, "aborted")
           ELSE IF la = " "
                THEN Emit("notEqual", "NOT_EQUAL", <<"!", "=">>, current + 2)
                ELSE Skip("notEqual", current + 1)
    /\ farRead' = current + 2

\* case '"': tokenizeString
ScanString ==
    /\ Scanning("\"")
    /\ LET c == StringLoopEnd(current + 1)
       IN  IF AtEnd(c)
           THEN Fail("string", c, "thrown")
           ELSE Emit("string", "STRING", Substr(current + 1, (c + 1) - current - 2), c + 1)
    /\ farRead' = LastGuarded(StringLoopEnd(current + 1))

\* case '#'
ScanComment ==
    /\ Scanning("#")
    /\ Skip("comment", CommentEnd(current + 1))
    /\ farRead' = LastGuarded(CommentEnd(current + 1))

\* tokenizeIdentifier with start = s, entered with current = c: [type, text, cur]
TokenizeIdentifier(s, c) ==
    [type |-> KeywordType(Substr(s, AlnumRunEnd(c) - s)),
     text |-> Substr(s, AlnumRunEnd(c) - s),
     cur |-> AlnumRunEnd(c)]

\* tokenizeNumber after the lookahead loop stopped on the character stop at
\* index la, with current = c after the digits
NumberToken(c, la, stop) ==
    IF IsAlpha(stop)
    THEN Emit("number", TokenizeIdentifier(current, la).type,
              TokenizeIdentifier(current, la).text, TokenizeIdentifier(current, la).cur)
    ELSE Emit("number", "INTEGER", Substr(current, c - current), c)

\* default: isdigit(c): tokenizeNumber
ScanNumber ==
    /\ lexState = "scanning" /\ ~AtEnd(current) /\ IsDigit(source[current + 1])
    /\ LET c == DigitRunEnd(current + 1)
           la == LookaheadStop(c)
       IN  IF la # -1
           THEN NumberToken(c, la, CharAt(la))
           ELSE \E stray \in {" ", "ABORT"} :
                    IF stray = "ABORT"
                    THEN Fail("number", c, "aborted")
                    ELSE NumberToken(c, Len(source) + 1, stray)
    /\ farRead' = IF LookaheadStop(DigitRunEnd(current + 1)) # -1
                  THEN LookaheadStop(DigitRunEnd(current + 1))
                  ELSE Len(source) + 1

\* default: isalpha(c): tokenizeIdentifier
ScanIdentifier ==
    /\ lexState = "scanning" /\ ~AtEnd(current) /\ IsAlpha(source[current + 1])
    /\ Emit("identifier", TokenizeIdentifier(current, current + 1).type,
            TokenizeIdentifier(current, current + 1).text,
            TokenizeIdentifier(current, current + 1).cur)
    /\ farRead' = LastGuarded(AlnumRunEnd(current + 1))

\* default: isspace(c): nothing is added
ScanSpace ==
    /\ lexState = "scanning" /\ ~AtEnd(current) /\ IsSpace(source[current + 1])
    /\ Skip("space", current + 1)
    /\ farRead' = current

\* default: any other character becomes an UNKNOWN token
ScanUnknown ==
    /\ lexState = "scanning" /\ ~AtEnd(current)
    /\ source[current + 1] \notin CaseChars
    /\ ~IsDigit(source[current + 1])
    /\ ~IsAlpha(source[current + 1])
    /\ ~IsSpace(source[current + 1])
    /\ Emit("unknown", "UNKNOWN", <<source[current + 1]>>, current + 1)
    /\ farRead' = current

\* tokenize after the loop: the END_OF_FILE token is added, tokens is returned
TokenizeReturn ==
    /\ lexState = "scanning" /\ AtEnd(current)
    /\ tokens' = AddToken(tokens, "END_OF_FILE", << >>)
    /\ tokStart' = Append(tokStart, current)
    /\ lexState' = "returned"
    /\ lastScan' = "return"
    /\ UNCHANGED <<source, start, current, farRead, evalVars, intVars, mainVars, parseVars>>

NextLex ==
    \/ ScanSingle
    \/ ScanGreater
    \/ ScanLess
    \/ ScanEqual
    \/ ScanNotEqual
    \/ ScanString
    \/ ScanComment
    \/ ScanNumber
    \/ ScanIdentifier
    \/ ScanSpace
    \/ ScanUnknown
    \/ TokenizeReturn

SpecLex == InitLex /\ [][NextLex]_vars

----------------------------------------------------------------------------
(* Spec: Interpreter::interpret on root statements, one call per step.      *)
(* The programs use the variables x and y, the parameters a and b and the   *)
(* functions f and g.                                                       *)

\* x + 1, a - 1, ...
Plus(l, r) == Bin(l, "PLUS", r)

\* roots that are one assignment
AssignRoots ==
    << ExprS(Asg("x", Lit(1))),                                   \* x = 1
       AssignS("y", Lit(2)),                                      \* y = 2
       ExprS(Asg("x", Plus(Var("x"), Lit(1)))),                   \* x = x + 1
       ExprS(Asg("x", Asg("y", Lit(0)))),                         \* x = y = 0
       ExprS(Asg("x", Bin(Lit(7), "DIV", Var("y")))),             \* x = 7 / y
       ExprS(Asg("x", Call("f", <<Lit(1)>>))),                    \* x = f(1)
       ExprS(Asg("y", Call("f", <<Lit(1), Lit(2)>>))),            \* y = f(1, 2)
       ExprS(Asg("x", Call("g", << >>))),                         \* x = g()
       ExprS(Asg("y", Asg("x", Plus(Var("x"), Lit(1))))) >>       \* y = x = x + 1

\* roots that define a function
FunctionRoots ==
    << \* def f(a): { return a + 1; print 999 }
       FuncS("f", <<"a">>,
             BlockS(<<RetS(Plus(Var("a"), Lit(1))), PrintS(<<Lit(999)>>)>>)),
       \* def f(a, b): { x = a; { y = b } }
       FuncS("f", <<"a", "b">>,
             BlockS(<<ExprS(Asg("x", Var("a"))),
                      BlockS(<<ExprS(Asg("y", Var("b")))>>)>>)),
       \* def g(): { { return x }; print 999 }
       FuncS("g", << >>,
             BlockS(<<BlockS(<<RetS(Var("x"))>>), PrintS(<<Lit(999)>>)>>)),
       \* def f(x): return x + g()
       FuncS("f", <<"x">>, RetS(Plus(Var("x"), Call("g", << >>)))),
       \* def g(): return g()
       FuncS("g", << >>, RetS(Call("g", << >>))) >>

\* roots that are a block
BlockRoots ==
    << \* { x = 2 }
       BlockS(<<ExprS(Asg("x", Lit(2)))>>),
       \* { y = x; x = 3 }
       BlockS(<<ExprS(Asg("y", Var("x"))), ExprS(Asg("x", Lit(3)))>>),
       \* { x = 5; return }
       BlockS(<<ExprS(Asg("x", Lit(5))), RetS(NullNode)>>),
       \* { x = 5; { y = x / y } }
       BlockS(<<ExprS(Asg("x", Lit(5))),
                BlockS(<<ExprS(Asg("y", Bin(Var("x"), "DIV", Var("y"))))>>)>>),
       \* { def g(): return 7; x = g() }
       BlockS(<<FuncS("g", << >>, RetS(Lit(7))), ExprS(Asg("x", Call("g", << >>)))>>),
       \* { def g(): return 7; def g(): return 8; y = g() }
       BlockS(<<FuncS("g", << >>, RetS(Lit(7))), FuncS("g", << >>, RetS(Lit(8))),
                ExprS(Asg("y", Call("g", << >>)))>>) >>

\* roots that print
PrintRoots ==
    << PrintS(<<Str("s"), Var("x")>>),                            \* print "s", x
       PrintS(<<Asg("y", Str("s"))>>),                            \* print y = "s"
       PrintS(<<Plus(Str("s"), Lit(1)), Str(""), Var("y")>>),     \* print "s" + 1, "", y
       PrintS(<< >>) >>                                           \* print

\* roots that branch
IfRoots ==
    << \* if x < 1: x = 1 else: y = 1
       IfS(Bin(Var("x"), "LESS", Lit(1)), ExprS(Asg("x", Lit(1))), ExprS(Asg("y", Lit(1)))),
       \* if y: x = 0
       IfS(Var("y"), ExprS(Asg("x", Lit(0))), NullNode) >>

\* roots that are a return statement outside any function
ReturnRoots == << RetS(Lit(5)) >>

\* roots that are a call used as a statement
CallRoots == << ExprS(Call("f", << >>)) >>                        \* f()

Init ==
    /\ envs = <<NewEnvironment(0)>>
    /\ out = << >>
    /\ status = "ok" /\ errMsg = ""
    /\ log = << >>
    /\ steps = 0
    /\ EvalIdle /\ LexIdle /\ MainIdle /\ ParseIdle

\* the process is alive (no exception has left interpret) and may call again
Running == status = "ok" /\ steps < MaxSteps

\* Interpreter::interpret(root) on the Interpreter's state
InterpretRun(root) ==
    /\ LET m == [envs |-> envs, out |-> out, log |-> << >>, depth |-> 0]
           r == IF root.kind = "null" THEN Res(m, "normal", 0, "") ELSE Execute(root, m, 1)
       IN  /\ envs' = r.m.envs
           /\ out' = r.m.out
           /\ log' = r.m.log
           /\ status' = IF r.sig = "normal" THEN "ok" ELSE r.sig
           /\ errMsg' = r.msg
    /\ steps' = steps + 1

\* Interpreter::interpret(root); an exception that leaves it ends the run
Interpret(root) ==
    /\ InterpretRun(root)
    /\ UNCHANGED <<evalVars, lexVars, mainVars, parseVars>>

InterpretAssign ==
    /\ Running
    /\ \E i \in 1..Len(AssignRoots) : Interpret(AssignRoots[i])

InterpretFunction ==
    /\ Running
    /\ \E i \in 1..Len(FunctionRoots) : Interpret(FunctionRoots[i])

InterpretBlock ==
    /\ Running
    /\ \E i \in 1..Len(BlockRoots) : Interpret(BlockRoots[i])

InterpretPrint ==
    /\ Running
    /\ \E i \in 1..Len(PrintRoots) : Interpret(PrintRoots[i])

InterpretIf ==
    /\ Running
    /\ \E i \in 1..Len(IfRoots) : Interpret(IfRoots[i])

InterpretReturn ==
    /\ Running
    /\ \E i \in 1..Len(ReturnRoots) : Interpret(ReturnRoots[i])

InterpretCall ==
    /\ Running
    /\ \E i \in 1..Len(CallRoots) : Interpret(CallRoots[i])


Next ==
    \/ InterpretAssign
    \/ InterpretFunction
    \/ InterpretBlock
    \/ InterpretPrint
    \/ InterpretIf
    \/ InterpretReturn
    \/ InterpretCall

Spec == Init /\ [][Next]_vars

----------------------------------------------------------------------------
(* SpecMain: one run of main (mypython.cpp).  Parser::parse is not among    *)
(* the sources: which root it builds from the tokens is left open, it       *)
(* returns one of the roots above, returns null, or throws the              *)
(* runtime_error of Parser::consume.                                        *)

\* the roots parse() may return
AllRoots ==
    AssignRoots \o FunctionRoots \o BlockRoots \o PrintRoots \o IfRoots
        \o ReturnRoots \o CallRoots

\* the contents a source file may have
FileContents == UNION {[1..n -> Alphabet] : n \in 0..MaxFileLen}

InitMain ==
    /\ argc \in 1..3
    /\ fileOpens \in BOOLEAN
    /\ pc = "start"
    /\ ast = NullNode
    /\ cerr = << >>
    /\ exitStatus = "running"
    /\ EvalIdle /\ LexIdle /\ IntIdle /\ ParseIdle

\* main returns code after writing message to std::cerr
MainReturn(message, code) ==
    /\ pc' = "exited"
    /\ cerr' = Append(cerr, message)
    /\ exitStatus' = code
    /\ UNCHANGED <<argc, fileOpens, ast>>

\* an exception leaves main: std::terminate ends the process with abort()
MainTerminate ==
    /\ pc' = "terminated"
    /\ exitStatus' = "SIGABRT"
    /\ UNCHANGED <<argc, fileOpens, ast, cerr>>

\* if (argc != 2): usage message, return 1
MainUsage ==
    /\ pc = "start" /\ argc # 2
    /\ MainReturn("Usage: mypython <source_file>", "1")
    /\ UNCHANGED <<parseVars, evalVars, lexVars, intVars>>

\* if (!file.is_open()): message, return 1
MainOpenFails ==
    /\ pc = "start" /\ argc = 2 /\ ~fileOpens
    /\ MainReturn("Could not open file", "1")
    /\ UNCHANGED <<parseVars, evalVars, lexVars, intVars>>

\* the file is read into source and the Lexer is constructed on it
MainReadFile ==
    /\ pc = "start" /\ argc = 2 /\ fileOpens
    /\ source' \in FileContents
    /\ lexState' = "scanning"
    /\ pc' = "lex"
    /\ UNCHANGED <<start, current, tokens, tokStart, lastScan, farRead>>
    /\ UNCHANGED <<argc, fileOpens, ast, cerr, exitStatus, parseVars, evalVars, intVars>>

\* lexer.tokenize() threw: main has no handler
MainLexThrows ==
    /\ pc = "lex" /\ lexState = "thrown"
    /\ MainTerminate
    /\ UNCHANGED <<parseVars, evalVars, lexVars, intVars>>

\* lexer.tokenize() ended the process (out-of-bounds read)
MainLexCrashes ==
    /\ pc = "lex" /\ lexState = "aborted"
    /\ pc' = "crashed"
    /\ exitStatus' = "signal"
    /\ UNCHANGED <<argc, fileOpens, ast, cerr, parseVars, evalVars, lexVars, intVars>>

\* parser.parse() returned a root: Interpreter interpreter is constructed
MainParseRoot ==
    /\ pc = "lex" /\ lexState = "returned"
    /\ \E i \in 1..Len(AllRoots) : ast' = AllRoots[i]
    /\ pc' = "interpret"
    /\ UNCHANGED <<argc, fileOpens, cerr, exitStatus, parseVars, evalVars, lexVars, intVars>>

\* parser.parse() returned null: if (!ast) message, return 1
MainParseNull ==
    /\ pc = "lex" /\ lexState = "returned"
    /\ MainReturn("Parsing error encountered.", "1")
    /\ UNCHANGED <<parseVars, evalVars, lexVars, intVars>>

\* parser.parse() threw (Parser::consume): main has no handler
MainParseThrows ==
    /\ pc = "lex" /\ lexState = "returned"
    /\ MainTerminate
    /\ errMsg' = "parse error"
    /\ UNCHANGED <<parseVars, evalVars, lexVars, envs, out, status, log, steps>>

\* interpreter.interpret(std::move(ast)); return 0 when it returns, otherwise
\* the exception leaves main, or the exhausted stack ends the process
MainInterpret ==
    /\ pc = "interpret"
    /\ InterpretRun(ast)
    /\ pc' = CASE status' = "ok"    -> "exited"
               [] status' = "abort" -> "crashed"
               [] OTHER             -> "terminated"
    /\ exitStatus' = CASE status' = "ok"    -> "0"
                       [] status' = "abort" -> "signal"
                       [] OTHER             -> "SIGABRT"
    /\ UNCHANGED <<argc, fileOpens, ast, cerr, parseVars, evalVars, lexVars>>

NextMain ==
    \/ MainUsage
    \/ MainOpenFails
    \/ MainReadFile
    \/ pc = "lex" /\ NextLex
    \/ MainLexThrows
    \/ MainLexCrashes
    \/ MainParseRoot
    \/ MainParseNull
    \/ MainParseThrows
    \/ MainInterpret

SpecMain == InitMain /\ [][NextMain]_vars

\* an error was raised by the lexer, the parser or the interpreter
ErrorRaised ==
    \/ lexState = "thrown"
    \/ errMsg = "parse error"
    \/ status = "error"

\* main is over: it returned, an exception left it, or the process was ended
MainEnded == pc \in {"exited", "terminated", "crashed"}

\* C12: every error the lexer, the parser or the interpreter raises during a
\* run of main is caught in main, reported on std::cerr and turned into exit
\* status 1, none leaves main uncaught; a run with an argument count other than
\* one or with a file that cannot be opened ends with a nonzero status, and a
\* run without error ends with status 0.
C12_MainCatchesErrors ==
    /\ pc # "terminated"
    /\ (MainEnded /\ ErrorRaised) => (pc = "exited" /\ exitStatus = "1" /\ cerr # << >>)
    /\ (pc = "exited" /\ (argc # 2 \/ ~fileOpens)) => exitStatus = "1"
    /\ (pc = "exited" /\ status = "ok") => exitStatus = "0"

\* tokenize threw "Unterminated string." and the exception left main
C12_Witness ==
    /\ pc = "terminated"
    /\ lexState = "thrown"
    /\ source = <<"\"">>
    /\ cerr = << >>

----------------------------------------------------------------------------
(* Properties of blocks, lookups and calls, read off the events of the last *)
(* interpret() call                                                         *)

LogIdx == 1..Len(log)

\* C3: when a block completes normally, every name defined in the block's own
\* (child) environment is in the enclosing environment with the block's final
\* value for it, and every other name of the enclosing environment keeps the
\* value it had when the block was entered.
C3_BlockMergesBack ==
    \A i \in LogIdx :
        (log[i].ev = "blockExit" /\ log[i].sig = "normal")
            => /\ DOMAIN log[i].post = (DOMAIN log[i].pre) \cup (DOMAIN log[i].child)
               /\ \A n \in DOMAIN log[i].child : log[i].post[n] = log[i].child[n]
               /\ \A n \in (DOMAIN log[i].pre) \ (DOMAIN log[i].child) :
                      log[i].post[n] = log[i].pre[n]

\* x = 1; { x = 2 } has run: the block found x = 1, left x = 2 behind, and a
\* read of x in the global environment now observes 2
C3_Witness ==
    /\ status = "ok"
    /\ \E i \in LogIdx :
           /\ log[i].ev = "blockExit" /\ log[i].sig = "normal" /\ log[i].parent = 1
           /\ "x" \in DOMAIN log[i].pre /\ log[i].pre["x"] = 1
           /\ "x" \in DOMAIN log[i].child /\ log[i].child["x"] = 2
    /\ Get(envs, 1, "x") = [found |-> TRUE, val |-> 2]

\* the environments of a scope chain that define name, by position (1 = innermost)
Definers(chain, name) == {k \in 1..Len(chain) : name \in DOMAIN chain[k]}

\* C4: a lookup of a name that no environment of the scope chain defines fails
\* with the undefined-variable error (which ends the run); a lookup of a name
\* that an ancestor defines, and no environment nearer than it, succeeds and
\* returns that ancestor's value.
C4_LookupThroughChain ==
    \A i \in LogIdx :
        log[i].ev = "var"
            => /\ (Definers(log[i].chain, log[i].name) = {})
                      => /\ ~log[i].found
                         /\ status = "error"
                         /\ errMsg = "Variable is not defined."
               /\ \A k \in Definers(log[i].chain, log[i].name) :
                      (\A j \in 1..(k - 1) : j \notin Definers(log[i].chain, log[i].name))
                          => /\ log[i].found
                             /\ log[i].val = log[i].chain[k][log[i].name]

\* a name that only an ancestor two environments up defines was looked up
C4_Witness ==
    \E i \in LogIdx :
        /\ log[i].ev = "var" /\ log[i].found
        /\ Len(log[i].chain) >= 3
        /\ Definers(log[i].chain, log[i].name) = {Len(log[i].chain)}

\* the call recorded at log[i] names a defined function whose number of
\* parameters differs from the number of arguments
ArityMismatch(i) ==
    /\ log[i].ev = "call"
    /\ GetFunction(log[i].pre, log[i].site, log[i].name).found
    /\ Len(GetFunction(log[i].pre, log[i].site, log[i].name).fn.parameters) # log[i].nargs

\* C5: a call of a defined function with fewer or more arguments than it has
\* parameters fails with the arity error; no parameter is bound, no statement
\* of the body executes, and the environments of the call site are unchanged.
C5_ArityMismatchFails ==
    \A i \in LogIdx :
        ArityMismatch(i)
            => /\ log[i].sig = "error"
               /\ log[i].msg = "Incorrect number of arguments provided to function."
               /\ log[i].localValues = EmptyMap
               /\ ~log[i].bodyRan
               /\ log[i].from = i
               /\ log[i].post = log[i].pre
               /\ status = "error"

\* a two-parameter function was called with one argument
C5_Witness ==
    \E i \in LogIdx :
        /\ ArityMismatch(i)
        /\ log[i].nargs = 1
        /\ Len(GetFunction(log[i].pre, log[i].site, log[i].name).fn.parameters) = 2

\* C6: once a return statement executes inside a function body, directly or
\* inside nested blocks of it, no later statement of that body executes (only
\* the enclosing blocks are left) and the call yields the value the return
\* carries; the print 999 that follows the return in the bodies never prints.
C6_ReturnShortCircuits ==
    /\ \A i \in LogIdx :
           (log[i].ev = "raise" /\ log[i].depth > 0)
               => \E j \in (i + 1)..Len(log) :
                      /\ log[j].ev = "call"
                      /\ log[j].depth = log[i].depth
                      /\ log[j].sig = "value"
                      /\ log[j].val = log[i].val
                      /\ \A k \in (i + 1)..(j - 1) : log[k].ev = "blockExit"
    /\ \A k \in 1..Len(out) : out[k] # "999"

\* def f(a): { return a + 1; print 999 } was called with 1: the return inside
\* the body's block carried 2, the call yielded 2 and nothing was printed
C6_Witness ==
    /\ out = << >>
    /\ \E i \in LogIdx :
           /\ log[i].ev = "raise" /\ log[i].depth = 1 /\ log[i].val = 2
           /\ i + 2 \in LogIdx
           /\ log[i + 1].ev = "blockExit" /\ log[i + 1].sig = "return"
           /\ log[i + 2].ev = "call" /\ log[i + 2].name = "f" /\ log[i + 2].val = 2
    /\ Get(envs, 1, "x") = [found |-> TRUE, val |-> 2]


----------------------------------------------------------------------------
(* Properties of tokenize (SpecLex).                                        *)

\* the number of backslashes that stand immediately before index j, counted
\* back no further than index lo
RECURSIVE BackslashRun(_, _)
BackslashRun(j, lo) ==
    IF j - 1 >= lo /\ CharAt(j - 1) = "\\" THEN 1 + BackslashRun(j - 1, lo) ELSE 0

\* the unescaped double quotes after the opening quote at index s: a quote is
\* escaped when an odd number of backslashes of the literal precede it
UnescapedQuotes(s) ==
    {j \in (s + 1)..(Len(source) - 1) :
        source[j + 1] = "\"" /\ BackslashRun(j, s + 1) % 2 = 0}

\* the least element of a non-empty set of indices
Least(S) == CHOOSE j \in S : \A k \in S : j <= k

\* C8: when scanToken meets a double quote that opens a string literal and no
\* unescaped double quote follows it before the end of the input, tokenize
\* throws "Unterminated string." and returns no tokens (a trailing backslash
\* and a trailing escaped quote included); otherwise the literal is closed by
\* the first unescaped quote, also when that is the last character, and a
\* STRING token with the text between the quotes is added.
C8_UnterminatedString ==
    lastScan = "string" =>
        /\ lexState \in {"thrown", "scanning"}
        /\ (lexState = "thrown") <=> (UnescapedQuotes(start) = {})
        /\ lexState = "scanning" =>
               /\ current = Least(UnescapedQuotes(start)) + 1
               /\ tokens[Len(tokens)] =
                      Token("STRING", SubSeq(source, start + 2, current - 1))

\* an escaped quote is the last character of the input and the literal is
\* rejected
C8_Witness ==
    /\ lastScan = "string"
    /\ lexState = "thrown"
    /\ Len(source) = 3
    /\ start = 0
    /\ source[2] = "\\"
    /\ source[3] = "\""

\* C9: tokenize ends in one of two ways only: it returns the tokens after the
\* whole input was consumed, or it throws the unterminated-string error out of
\* tokenizeString; it is never ended in any other way.
C9_TokenizeTotal ==
    /\ lexState \in {"scanning", "returned", "thrown"}
    /\ lexState = "returned" => current >= Len(source)
    /\ lexState = "thrown" => lastScan = "string"

\* the input is a digit run with nothing after it and tokenizeNumber's
\* lookahead loop has left the string
C9_Witness ==
    /\ lastScan = "number"
    /\ Len(source) >= 1
    /\ \A i \in 1..Len(source) : IsDigit(source[i])
    /\ lexState = "aborted"

\* token i starts at the position recorded for it
LexemeAt(i) ==
    IF tokens[i].type = "STRING"
    THEN /\ CharAt(tokStart[i]) = "\""
         /\ tokens[i].lexeme = Substr(tokStart[i] + 1, Len(tokens[i].lexeme))
    ELSE /\ Len(tokens[i].lexeme) >= 1
         /\ tokens[i].lexeme[1] = CharAt(tokStart[i])

\* C10: the tokens tokenize returns end with an END_OF_FILE token, hold no
\* other END_OF_FILE token, and the other tokens stand in the order of the
\* positions of their lexemes in the source, from left to right.
C10_EndOfFileLast ==
    lexState = "returned" =>
        /\ Len(tokens) >= 1
        /\ tokens[Len(tokens)].type = "END_OF_FILE"
        /\ Cardinality({i \in 1..Len(tokens) : tokens[i].type = "END_OF_FILE"}) = 1
        /\ \A i \in 1..(Len(tokens) - 1) :
               /\ tokStart[i] < Len(source)
               /\ LexemeAt(i)
               /\ \A j \in (i + 1)..(Len(tokens) - 1) : tokStart[i] < tokStart[j]

\* three tokens of different kinds were returned before END_OF_FILE
C10_Witness ==
    /\ lexState = "returned"
    /\ Len(tokens) = 4
    /\ tokens[1].type = "IDENTIFIER"
    /\ tokens[2].type = "PLUS"
    /\ tokens[3].type = "UNKNOWN"

----------------------------------------------------------------------------
(* Properties of the return signal at the boundary of interpret *)

\* C11: no ReturnValue leaves Interpreter::interpret: one raised inside a call
\* is caught by the callFunction activation it was raised in, and a return
\* statement executed outside any call ends the run with a runtime error, not
\* with the ReturnValue itself in flight.
C11_ReturnNeverEscapes ==
    /\ status # "return"
    /\ \A i \in LogIdx :
           (log[i].ev = "raise" /\ log[i].depth > 0)
               => \E j \in (i + 1)..Len(log) :
                      /\ log[j].ev = "call"
                      /\ log[j].depth = log[i].depth
                      /\ log[j].sig = "value"
                      /\ \A k \in (i + 1)..(j - 1) : log[k].ev # "call"
    /\ \A i \in LogIdx :
           (log[i].ev = "raise" /\ log[i].depth = 0) => status = "error"

\* a return statement ran outside any call, at the root or inside a block, and
\* its ReturnValue left interpret
C11_Witness ==
    /\ status = "return"
    /\ \E i \in LogIdx : log[i].ev = "raise" /\ log[i].depth = 0

----------------------------------------------------------------------------
(* Properties of the outcome of a call *)

\* the return statements the activation recorded at log[i] executed itself
\* (not those of the calls nested in it), by position in the log
RaisesOf(i) ==
    {k \in log[i].from..(i - 1) : log[k].ev = "raise" /\ log[k].depth = log[i].depth}

\* the body raised a return signal and the call yields the integer the first
\* return executed carries
Returned(i) ==
    /\ log[i].sig = "value"
    /\ RaisesOf(i) # {}
    /\ log[i].val = log[Least(RaisesOf(i))].val

\* the body ran to its end without a return and the call yields 0
NormalCompletion(i) ==
    /\ log[i].sig = "value"
    /\ RaisesOf(i) = {}
    /\ log[i].val = 0

\* an error left the call
Errored(i) ==
    /\ log[i].sig = "error"
    /\ RaisesOf(i) = {}

\* C13: a call of a defined function with as many arguments as parameters
\* whose body terminates ends in exactly one of Returned (with the value of
\* the first return executed), NormalCompletion (with 0) and Errored.
C13_ExactlyOneOutcome ==
    \A i \in LogIdx :
        (log[i].ev = "call" /\ log[i].bodyRan /\ log[i].sig # "abort")
            => /\ Returned(i) \/ NormalCompletion(i) \/ Errored(i)
               /\ ~(Returned(i) /\ NormalCompletion(i))
               /\ ~(Returned(i) /\ Errored(i))
               /\ ~(NormalCompletion(i) /\ Errored(i))

\* a call whose body executed exactly one return statement yielded the 2 that
\* return carried
C13_Witness ==
    \E i \in LogIdx :
        /\ log[i].ev = "call" /\ log[i].bodyRan
        /\ Returned(i)
        /\ log[i].val = 2
        /\ Cardinality(RaisesOf(i)) = 1

----------------------------------------------------------------------------
(* Properties of function lookup and definition *)

\* the functions maps of the scope chain of e, innermost first
RECURSIVE FunctionChainOf(_, _)
FunctionChainOf(es, e) ==
    IF e = 0 THEN << >> ELSE <<es[e].functions>> \o FunctionChainOf(es, es[e].parent)

\* the functions maps the call recorded at log[i] could see
CallChain(i) == FunctionChainOf(log[i].pre, log[i].site)

\* C14: a call of a name that no environment of the scope chain of the call
\* site defines fails with the undefined-function error before an environment
\* is created and before any statement runs; a name several environments of
\* the chain define is called with the definition of the innermost of them;
\* and a definition of a name in an environment replaces the one that
\* environment held, leaving every other definition alone.
C14_FunctionLookup ==
    /\ \A i \in LogIdx :
           (log[i].ev = "call" /\ Definers(CallChain(i), log[i].name) = {})
               => /\ log[i].sig = "error"
                  /\ log[i].msg = "Function is not defined."
                  /\ log[i].stage = "resolving"
                  /\ log[i].from = i
                  /\ log[i].post = log[i].pre
    /\ \A i \in LogIdx :
           (log[i].ev = "call" /\ Definers(CallChain(i), log[i].name) # {})
               => /\ log[i].stage # "resolving"
                  /\ log[i].fn =
                         CallChain(i)[Least(Definers(CallChain(i), log[i].name))][log[i].name]
    /\ \A i \in LogIdx :
           log[i].ev = "defun"
               => /\ Len(log[i].post) = Len(log[i].pre)
                  /\ \A k \in 1..Len(log[i].pre) :
                         /\ log[i].post[k].values = log[i].pre[k].values
                         /\ log[i].post[k].parent = log[i].pre[k].parent
                         /\ k # log[i].env => log[i].post[k] = log[i].pre[k]
                  /\ DOMAIN log[i].post[log[i].env].functions =
                         (DOMAIN log[i].pre[log[i].env].functions) \cup {log[i].name}
                  /\ log[i].post[log[i].env].functions[log[i].name] = log[i].fn
                  /\ \A n \in (DOMAIN log[i].pre[log[i].env].functions) \ {log[i].name} :
                         log[i].post[log[i].env].functions[n] =
                             log[i].pre[log[i].env].functions[n]

\* the global environment and a block both define g, differently, the block
\* redefined its g, and the call from the block ran the block's second g
C14_Witness ==
    \E i \in LogIdx :
        /\ log[i].ev = "call" /\ log[i].name = "g" /\ log[i].sig = "value"
        /\ Definers(CallChain(i), "g") = {1, 2}
        /\ CallChain(i)[1]["g"] # CallChain(i)[2]["g"]
        /\ log[i].val = 8
        /\ \E j \in 1..(i - 1) :
               /\ log[j].ev = "defun" /\ log[j].name = "g"
               /\ "g" \in DOMAIN log[j].pre[log[j].env].functions
               /\ log[j].pre[log[j].env].functions["g"] # log[j].fn

----------------------------------------------------------------------------
(* Properties of the operator tokens (SpecLex) *)

\* the token kinds the two-character and the one-character operators stand for
CompoundKind(c) ==
    CASE c = ">" -> "GREATER_EQUAL"
      [] c = "<" -> "LESS_EQUAL"
      [] c = "=" -> "EQUAL"
      [] c = "!" -> "NOT_EQUAL"

SingleKind(c) ==
    CASE c = ">" -> "GREATER"
      [] c = "<" -> "LESS"
      [] c = "=" -> "ASSIGN"

\* the operators a source without string literals and comments holds from
\* index j on, read from left to right, the longer operator first: the index
\* of each, its token kind and the index of the character after it
RECURSIVE OperatorsFrom(_)
OperatorsFrom(j) ==
    IF j >= Len(source)
    THEN {}
    ELSE IF CharAt(j) \in {">", "<", "=", "!"} /\ CharAt(j + 1) = "="
         THEN {[pos |-> j, kind |-> CompoundKind(CharAt(j)), next |-> j + 2]}
                  \cup OperatorsFrom(j + 2)
         ELSE IF CharAt(j) \in {">", "<", "="}
              THEN {[pos |-> j, kind |-> SingleKind(CharAt(j)), next |-> j + 1]}
                       \cup OperatorsFrom(j + 1)
              ELSE OperatorsFrom(j + 1)

\* the tokens other than END_OF_FILE that start at index j
TokensAt(j) ==
    {i \in 1..Len(tokens) : tokStart[i] = j /\ tokens[i].type # "END_OF_FILE"}

\* C15: in a source without string literals and comments every >=, <=, ==, !=
\* yields exactly one GREATER_EQUAL, LESS_EQUAL, EQUAL, NOT_EQUAL token and
\* every >, <, = not followed by = yields exactly one GREATER, LESS, ASSIGN
\* token, whatever follows the operator; a digit or letter right after the
\* operator is not consumed by it but starts a token of its own.  Stated for
\* the sources that end in a newline, where the lexer reads no character
\* beyond the end of the source.
C15_OperatorTokens ==
    (/\ lexState = "returned"
     /\ Len(source) >= 1
     /\ source[Len(source)] = "\n"
     /\ \A k \in 1..Len(source) : source[k] \notin {"\"", "#"})
        => \A o \in OperatorsFrom(0) :
               /\ Cardinality(TokensAt(o.pos)) = 1
               /\ \A i \in TokensAt(o.pos) : tokens[i].type = o.kind
               /\ IsAlnum(CharAt(o.next)) => TokensAt(o.next) # {}

\* the line >=i was tokenized as GREATER, ASSIGN, IDENTIFIER
C15_Witness ==
    /\ lexState = "returned"
    /\ source = <<">", "=", "i", "\n">>
    /\ Len(tokens) = 4
    /\ tokens[1].type = "GREATER"
    /\ tokens[2].type = "ASSIGN"
    /\ tokens[3].type = "IDENTIFIER"

----------------------------------------------------------------------------
(* Properties of the number tokens (SpecLex) *)

\* the index after the maximal run of digits that starts at index j
RECURSIVE RunEnd(_)
RunEnd(j) == IF j < Len(source) /\ IsDigit(CharAt(j)) THEN RunEnd(j + 1) ELSE j

\* the first character at or after index j that is not whitespace
\* ("NUL" when there is none)
RECURSIVE NextNonSpace(_)
NextNonSpace(j) ==
    IF j < Len(source) /\ IsSpace(CharAt(j)) THEN NextNonSpace(j + 1) ELSE CharAt(j)

\* C16: when scanToken meets a digit, the token it adds is an INTEGER whose
\* lexeme is the maximal digit run, unless the next character after the run
\* that is not whitespace is a letter: then the one token added is an
\* IDENTIFIER whose lexeme starts at the first digit, and no INTEGER.  Stated
\* for the sources that end in a newline, where the lexer reads no character
\* beyond the end of the source.
C16_DigitRunToken ==
    (/\ lastScan = "number"
     /\ lexState = "scanning"
     /\ source[Len(source)] = "\n")
        => /\ Len(tokens) >= 1
           /\ tokStart[Len(tokens)] = start
           /\ TokensAt(start) = {Len(tokens)}
           /\ IF IsAlpha(NextNonSpace(RunEnd(start)))
              THEN /\ tokens[Len(tokens)].type = "IDENTIFIER"
                   /\ tokens[Len(tokens)].lexeme[1] = CharAt(start)
              ELSE tokens[Len(tokens)] =
                       Token("INTEGER", SubSeq(source, start + 1, RunEnd(start)))

\* the line 1i was tokenized as the INTEGER 1 followed by the IDENTIFIER i
C16_Witness ==
    /\ lexState = "returned"
    /\ source = <<"1", "i", "\n">>
    /\ Len(tokens) = 3
    /\ tokens[1] = Token("INTEGER", <<"1">>)
    /\ tokens[2] = Token("IDENTIFIER", <<"i">>)

----------------------------------------------------------------------------
(* Properties of the operator lookahead (SpecLex) *)

\* C17: when scanToken meets >, <, ! or =, what it does depends only on the
\* character right after the operator character: if that is a blank, the
\* compound token is added and exactly that blank is consumed; otherwise the
\* single-character token is added (none for !) and nothing more is consumed.
\* Stated for the sources that end in a newline, where the lexer reads no
\* character beyond the end of the source.
C17_LookaheadOneCharacter ==
    (/\ lastScan \in {"greater", "less", "equal", "notEqual"}
     /\ lexState = "scanning"
     /\ source[Len(source)] = "\n")
        => IF CharAt(start + 1) = " "
           THEN /\ current = start + 2
                /\ TokensAt(start) = {Len(tokens)}
                /\ tokens[Len(tokens)].type = CompoundKind(CharAt(start))
           ELSE /\ current = start + 1
                /\ IF CharAt(start) = "!"
                   THEN TokensAt(start) = {}
                   ELSE /\ TokensAt(start) = {Len(tokens)}
                        /\ tokens[Len(tokens)].type = SingleKind(CharAt(start))

\* in the line ">1 " the > became GREATER_EQUAL and the 1 after it was
\* consumed: no token holds it
C17_Witness ==
    /\ lexState = "returned"
    /\ source = <<">", "1", " ", "\n">>
    /\ Len(tokens) = 2
    /\ tokens[1].type = "GREATER_EQUAL"

----------------------------------------------------------------------------
(* Properties of the scope chain inside a call *)

\* the last n elements of the sequence c
Suffix(c, n) == SubSeq(c, Len(c) - n + 1, Len(c))

\* the scope chain of the call site of the call recorded at log[i], as it was
\* when the call was made
SiteChain(i) == ChainOf(log[i].pre, log[i].site)

\* the variable lookups the activation recorded at log[i] made itself
LookupsOf(i) ==
    {k \in log[i].from..(i - 1) : log[k].ev = "var" /\ log[k].depth = log[i].depth}

\* C18: the environment of a call has the environment of the call site as its
\* parent: below the call's own environments every lookup in the body sees the
\* scope chain of the caller as it was at call time, so a name that neither
\* the call's environment (its parameters, its assignments) nor a block of the
\* body defines resolves to the caller's value for it, the caller's locals
\* and parameters included, and a name the call's environment defines (a
\* parameter) resolves to that, not to a caller's variable of the same name.
C18_CallSiteIsParent ==
    \A i \in LogIdx :
        (log[i].ev = "call" /\ log[i].bodyRan)
            => \A k \in LookupsOf(i) :
                   /\ Len(log[k].chain) > Len(SiteChain(i))
                   /\ Suffix(log[k].chain, Len(SiteChain(i))) = SiteChain(i)
                   /\ (\A j \in 1..(Len(log[k].chain) - Len(SiteChain(i))) :
                           log[k].name \notin DOMAIN log[k].chain[j])
                          => IF Definers(SiteChain(i), log[k].name) = {}
                             THEN ~log[k].found
                             ELSE /\ log[k].found
                                  /\ log[k].val =
                                         SiteChain(i)[Least(Definers(SiteChain(i), log[k].name))]
                                                     [log[k].name]
                   /\ (/\ log[k].name \in
                              DOMAIN log[k].chain[Len(log[k].chain) - Len(SiteChain(i))]
                       /\ \A j \in 1..(Len(log[k].chain) - Len(SiteChain(i)) - 1) :
                              log[k].name \notin DOMAIN log[k].chain[j])
                          => /\ log[k].found
                             /\ log[k].val =
                                    log[k].chain[Len(log[k].chain) - Len(SiteChain(i))]
                                                [log[k].name]

\* g, called from the body of f(x), read x and found the value of f's
\* parameter x, which differs from the global x
C18_Witness ==
    \E i \in LogIdx :
        /\ log[i].ev = "call" /\ log[i].name = "g" /\ log[i].bodyRan
        /\ Len(SiteChain(i)) = 2
        /\ "x" \in DOMAIN SiteChain(i)[1]
        /\ "x" \in DOMAIN SiteChain(i)[2]
        /\ SiteChain(i)[1]["x"] # SiteChain(i)[2]["x"]
        /\ \E k \in LookupsOf(i) :
               /\ log[k].name = "x" /\ log[k].found
               /\ log[k].val = SiteChain(i)[1]["x"]

----------------------------------------------------------------------------
(* Properties of Environment::define and Environment::get *)

\* the ancestors of environment e in es, nearest first
RECURSIVE AncestorsOf(_, _)
AncestorsOf(es, e) ==
    IF es[e].parent = 0 THEN << >> ELSE <<es[e].parent>> \o AncestorsOf(es, es[e].parent)

\* C19: define(name, value) on an environment changes that environment's own
\* entry for name and nothing else: its entries for other names, its functions
\* and its parent stay, and so does every other environment, the ancestors
\* included, also when an ancestor holds a value for the same name.
C19_DefineWritesOwnMapOnly ==
    \A i \in LogIdx :
        log[i].ev = "define"
            => /\ Len(log[i].post) = Len(log[i].pre)
               /\ \A k \in 1..Len(log[i].pre) :
                      k # log[i].env => log[i].post[k] = log[i].pre[k]
               /\ log[i].post[log[i].env].functions = log[i].pre[log[i].env].functions
               /\ log[i].post[log[i].env].parent = log[i].pre[log[i].env].parent
               /\ DOMAIN log[i].post[log[i].env].values =
                      (DOMAIN log[i].pre[log[i].env].values) \cup {log[i].name}
               /\ log[i].post[log[i].env].values[log[i].name] = log[i].val
               /\ \A n \in (DOMAIN log[i].pre[log[i].env].values) \ {log[i].name} :
                      log[i].post[log[i].env].values[n] = log[i].pre[log[i].env].values[n]

\* a name was defined in an environment that did not hold it while an ancestor
\* held another value for it, and the ancestor still holds that value
C19_Witness ==
    \E i \in LogIdx :
        /\ log[i].ev = "define"
        /\ log[i].name \notin DOMAIN log[i].pre[log[i].env].values
        /\ \E k \in 1..Len(AncestorsOf(log[i].pre, log[i].env)) :
               LET a == AncestorsOf(log[i].pre, log[i].env)[k]
               IN  /\ log[i].name \in DOMAIN log[i].pre[a].values
                   /\ log[i].pre[a].values[log[i].name] # log[i].val
                   /\ log[i].post[a].values[log[i].name] = log[i].pre[a].values[log[i].name]


\* C20: a lookup of a name that several environments of the scope chain
\* define returns the value of the innermost of them, whether the lookup starts
\* in that environment or in a descendant that does not define the name, and
\* not the value an environment further out holds.
C20_InnermostWins ==
    \A i \in LogIdx :
        (log[i].ev = "var" /\ Cardinality(Definers(log[i].chain, log[i].name)) >= 2)
            => /\ log[i].found
               /\ log[i].val = log[i].chain[Least(Definers(log[i].chain, log[i].name))]
                                           [log[i].name]
               /\ \A k \in Definers(log[i].chain, log[i].name) :
                      log[i].chain[k][log[i].name] #
                              log[i].chain[Least(Definers(log[i].chain, log[i].name))]
                                          [log[i].name]
                          => log[i].val # log[i].chain[k][log[i].name]

\* a lookup that started in a descendant found the name in an environment of
\* the chain and in an ancestor of it, with different values
C20_Witness ==
    \E i \in LogIdx :
        /\ log[i].ev = "var" /\ log[i].found
        /\ Cardinality(Definers(log[i].chain, log[i].name)) >= 2
        /\ Least(Definers(log[i].chain, log[i].name)) >= 2
        /\ \E k \in Definers(log[i].chain, log[i].name) :
               log[i].chain[k][log[i].name] # log[i].val

----------------------------------------------------------------------------
(* AssignExpr::evaluate *)

\* the events the right-hand side of the assignment of event i produced
RhsEvents(i) == log[i].from .. (i - 1)

\* the lookups the right-hand side of the assignment of event i made in the
\* assignment's own environment before any assignment nested in it defined a name
RhsReads(i) ==
    {j \in RhsEvents(i) :
        /\ log[j].ev = "var" /\ log[j].depth = log[i].depth
        /\ \A k \in log[i].from .. (j - 1) :
               ~(log[k].ev = "define" /\ log[k].depth = log[i].depth)}

\* C21: an assignment expression evaluates its right-hand side completely
\* before the name is defined (a lookup in the right-hand side sees the scope
\* chain as it was when the assignment was entered, so `x = x + 1` reads the old
\* x), defines the name in the current environment only, and yields the
\* assigned value: in a chained assignment `a = b = v` the outer name gets the
\* value the inner one got and both are left with it in the current environment.
C21_AssignExprOrder ==
    \A i \in LogIdx :
        log[i].ev = "define"
            => /\ log[i].from <= i
               /\ \A j \in RhsReads(i) :
                      log[j].chain = ChainOf(log[i].entry, log[i].env)
               /\ Len(log[i].post) = Len(log[i].pre)
               /\ \A k \in 1..Len(log[i].pre) :
                      log[i].post[k] = IF k = log[i].env
                                       THEN [log[i].pre[k] EXCEPT !.values =
                                                [n \in (DOMAIN @) \cup {log[i].name} |->
                                                    IF n = log[i].name THEN log[i].val
                                                                       ELSE @[n]]]
                                       ELSE log[i].pre[k]
               /\ log[i].rhsKind = "Assign"
                      => /\ i > 1
                         /\ log[i - 1].ev = "define"
                         /\ log[i - 1].env = log[i].env
                         /\ log[i - 1].from = log[i].from
                         /\ log[i].val = log[i - 1].val
                         /\ log[i].post[log[i].env].values[log[i].name] = log[i].val
                         /\ log[i].post[log[i].env].values[log[i - 1].name] = log[i].val

\* a chained assignment `a = b = b + 1` ran where b was defined: the inner
\* right-hand side read the old b, and a and b got the new value
C21_Witness ==
    \E i \in LogIdx :
        /\ log[i].ev = "define" /\ log[i].rhsKind = "Assign"
        /\ i > 1 /\ log[i - 1].ev = "define" /\ log[i - 1].name # log[i].name
        /\ \E j \in RhsReads(i - 1) :
               /\ log[j].name = log[i - 1].name /\ log[j].found
               /\ log[j].val # log[i - 1].val
        /\ log[i].post[log[i].env].values[log[i].name] = log[i - 1].val

----------------------------------------------------------------------------
(* PrintStmt::execute *)

\* a literal, a string literal or a variable
IsAtom(x) == x.kind \in {"Literal", "StringLiteral", "Var"}

\* the expressions the statement below is stated for: an atom, a sum of two
\* atoms, or an atom assigned to a name
IsItem(x) ==
    \/ IsAtom(x)
    \/ x.kind = "Assign" /\ IsAtom(x.rhs)
    \/ x.kind = "Binary" /\ x.op = "PLUS" /\ IsAtom(x.left) /\ IsAtom(x.right)

\* the names an item reads, and the names it assigns
ItemReads(x) ==
    CASE x.kind = "Var"    -> {x.name}
      [] x.kind = "Assign" -> IF x.rhs.kind = "Var" THEN {x.rhs.name} ELSE {}
      [] x.kind = "Binary" -> {a.name : a \in {b \in {x.left, x.right} : b.kind = "Var"}}
      [] OTHER             -> {}
ItemWrites(x) == IF x.kind = "Assign" THEN {x.name} ELSE {}

\* every expression is an item, and none reads a name an earlier one assigned
ItemsOnly(xs) ==
    /\ \A k \in 1..Len(xs) : IsItem(xs[k])
    /\ \A k \in 1..Len(xs) : \A h \in 1..(k - 1) : ItemReads(xs[k]) \cap ItemWrites(xs[h]) = {}

\* the integer an atom stands for in the scope chain: a string literal is 0
AtomInt(a, chain) ==
    CASE a.kind = "Literal"       -> a.value
      [] a.kind = "StringLiteral" -> 0
      [] a.kind = "Var"           -> chain[Least(Definers(chain, a.name))][a.name]

\* the integer an item stands for
ItemInt(x, chain) ==
    CASE x.kind = "Assign" -> AtomInt(x.rhs, chain)
      [] x.kind = "Binary" -> AtomInt(x.left, chain) + AtomInt(x.right, chain)
      [] OTHER             -> AtomInt(x, chain)

\* the text of item x: the raw text of a string literal, the integer otherwise
ItemText(x, chain) ==
    IF x.kind = "StringLiteral" THEN x.text ELSE ToString(ItemInt(x, chain))

\* text, space, text, space, ..., newline
RECURSIVE PrintedLine(_, _, _)
PrintedLine(xs, k, chain) ==
    IF k > Len(xs)
    THEN <<"\n">>
    ELSE <<ItemText(xs[k], chain), " ">> \o PrintedLine(xs, k + 1, chain)

\* C22: a print statement that runs to its end appends to the output, for each
\* of its expressions in order, the expression's text and one space, and then
\* one newline; the text of a string literal is its raw text, the text of any
\* other expression is its integer value, a string literal inside it counting 0.
C22_PrintFormat ==
    \A i \in LogIdx :
        (log[i].ev = "print" /\ log[i].sig = "normal" /\ ItemsOnly(log[i].expressions))
            => log[i].post = log[i].pre \o PrintedLine(log[i].expressions, 1, log[i].chain)

\* a print statement ran that has a string literal of its own and a string
\* literal inside another expression
C22_Witness ==
    \E i \in LogIdx :
        /\ log[i].ev = "print" /\ log[i].sig = "normal" /\ ItemsOnly(log[i].expressions)
        /\ Len(log[i].expressions) >= 2
        /\ \E k \in 1..Len(log[i].expressions) : log[i].expressions[k].kind = "StringLiteral"
        /\ \E k \in 1..Len(log[i].expressions) :
               /\ log[i].expressions[k].kind = "Binary"
               /\ log[i].expressions[k].left.kind = "StringLiteral"
        /\ Len(log[i].post) = Len(log[i].pre) + 2 * Len(log[i].expressions) + 1

----------------------------------------------------------------------------
(* SpecParse: the cursor methods of Parser (Parser.hpp), called in any      *)
(* order on the tokens a Lexer::tokenize call returned.                     *)

\* token sequences of SpecParse have at most MaxTokens tokens, END_OF_FILE included
MaxTokens == 3

\* the tokens before END_OF_FILE
ParserTokenChoices == {Token("IDENTIFIER", "x"), Token("ASSIGN", "="), Token("INTEGER", "1")}

\* what tokenize returns: tokens, then the END_OF_FILE token
TokenSeqs ==
    {Append(ts, Token("END_OF_FILE", "")) :
        ts \in UNION {[1..n -> ParserTokenChoices] : n \in 0..(MaxTokens - 1)}}

\* the token kinds the methods are called with
ExpectedTypes == {"IDENTIFIER", "ASSIGN", "COLON", "END_OF_FILE"}

\* Parser::isAtEnd
ParserIsAtEnd(c, toks) == c >= Len(toks)

\* the index peek() and advance() read: tokens[current], or tokens.back() at the end
ReadIndex(c, toks) == IF ~ParserIsAtEnd(c, toks) THEN c ELSE Len(toks) - 1

\* mutant: current++ without the isAtEnd test
AdvanceCursor_Unguarded(c, toks) == c + 1

\* Parser::advance, the cursor it leaves
AdvanceCursor(c, toks) == IF ~ParserIsAtEnd(c, toks) THEN c + 1 ELSE c

\* Parser::check
CheckHolds(type, c, toks) ==
    IF ParserIsAtEnd(c, toks) THEN FALSE ELSE toks[ReadIndex(c, toks) + 1].type = type

\* the indices check(type) reads
CheckReads(c, toks) == IF ParserIsAtEnd(c, toks) THEN {} ELSE {ReadIndex(c, toks)}

\* history: the method called, the kinds it was called with, the cursor before
\* the call, the indices of tokens it read and what it returned
ParserCall(name, types, reads, ret) ==
    [op |-> name, arg |-> types, before |-> parserCurrent, reads |-> reads, ret |-> ret]

InitParse ==
    /\ parserTokens \in TokenSeqs
    /\ parserCurrent = 0
    /\ parserState = "ready"
    /\ lastCall = [op |-> "none"]
    /\ EvalIdle /\ LexIdle /\ IntIdle /\ MainIdle

\* Token advance()
ParserAdvance ==
    /\ parserState = "ready"
    /\ parserCurrent' = AdvanceCursor(parserCurrent, parserTokens)
    /\ lastCall' = ParserCall("advance", {}, {ReadIndex(parserCurrent, parserTokens)},
                              parserTokens[ReadIndex(parserCurrent, parserTokens) + 1].type)
    /\ UNCHANGED <<parserTokens, parserState, evalVars, lexVars, intVars, mainVars>>

\* Token peek() const
ParserPeek ==
    /\ parserState = "ready"
    /\ lastCall' = ParserCall("peek", {}, {ReadIndex(parserCurrent, parserTokens)},
                              parserTokens[ReadIndex(parserCurrent, parserTokens) + 1].type)
    /\ UNCHANGED <<parserTokens, parserCurrent, parserState>>
    /\ UNCHANGED <<evalVars, lexVars, intVars, mainVars>>

\* bool check(TokenType type) const
ParserCheck ==
    /\ parserState = "ready"
    /\ \E type \in ExpectedTypes :
           lastCall' = ParserCall("check", {type}, CheckReads(parserCurrent, parserTokens),
                                  ToString(CheckHolds(type, parserCurrent, parserTokens)))
    /\ UNCHANGED <<parserTokens, parserCurrent, parserState>>
    /\ UNCHANGED <<evalVars, lexVars, intVars, mainVars>>

\* bool match(std::initializer_list<TokenType> types): the first kind of the
\* list the token at the cursor has makes it advance and return true
ParserMatch ==
    /\ parserState = "ready"
    /\ \E types \in SUBSET ExpectedTypes :
           IF \E type \in types : CheckHolds(type, parserCurrent, parserTokens)
           THEN /\ parserCurrent' = AdvanceCursor(parserCurrent, parserTokens)
                /\ lastCall' = ParserCall("match", types,
                                          {ReadIndex(parserCurrent, parserTokens)}, "TRUE")
           ELSE /\ parserCurrent' = parserCurrent
                /\ lastCall' = ParserCall("match", types,
                                          IF types = {} THEN {}
                                          ELSE CheckReads(parserCurrent, parserTokens),
                                          "FALSE")
    /\ UNCHANGED <<parserTokens, parserState, evalVars, lexVars, intVars, mainVars>>

\* void consume(TokenType type, const std::string& message): advance() when
\* check(type) holds; otherwise error(peek(), ...) writes to std::cerr and a
\* std::runtime_error is thrown
ParserConsume ==
    /\ parserState = "ready"
    /\ \E type \in ExpectedTypes :
           IF CheckHolds(type, parserCurrent, parserTokens)
           THEN /\ parserCurrent' = AdvanceCursor(parserCurrent, parserTokens)
                /\ lastCall' = ParserCall("consume", {type},
                                          {ReadIndex(parserCurrent, parserTokens)}, "void")
                /\ UNCHANGED <<parserState, cerr>>
           ELSE /\ parserState' = "thrown"
                /\ cerr' = Append(cerr, "Error at "
                                        \o parserTokens[ReadIndex(parserCurrent,
                                                                  parserTokens) + 1].lexeme)
                /\ lastCall' = ParserCall("consume", {type},
                                          CheckReads(parserCurrent, parserTokens)
                                              \cup {ReadIndex(parserCurrent, parserTokens)},
                                          "thrown")
                /\ UNCHANGED parserCurrent
    /\ UNCHANGED <<parserTokens, argc, fileOpens, pc, ast, exitStatus>>
    /\ UNCHANGED <<evalVars, lexVars, intVars>>

NextParse ==
    \/ ParserAdvance
    \/ ParserPeek
    \/ ParserCheck
    \/ ParserMatch
    \/ ParserConsume

SpecParse == InitParse /\ [][NextParse]_vars

\* the token at the cursor before the last call had one of the kinds asked for
HadExpected ==
    /\ lastCall.before < Len(parserTokens)
    /\ parserTokens[lastCall.before + 1].type \in lastCall.arg

\* C23: consume(expected) either advances the cursor by exactly one token (the
\* token at the cursor has the expected kind) or throws and leaves the cursor
\* where it was; after any sequence of advance, match, check, peek and consume
\* the cursor is within 0..number of tokens and every token index read is
\* within the sequence.
C23_ConsumeAndCursor ==
    /\ parserState # "idle" => parserCurrent \in 0..Len(parserTokens)
    /\ lastCall.op # "none" => lastCall.reads \subseteq 0..(Len(parserTokens) - 1)
    /\ lastCall.op = "consume"
           => IF HadExpected
              THEN parserState = "ready" /\ parserCurrent = lastCall.before + 1
              ELSE parserState = "thrown" /\ parserCurrent = lastCall.before

\* consume was called with the cursor past the last token: it read the last
\* token for the diagnostic, threw, and left the cursor at the number of tokens
C23_Witness ==
    /\ lastCall.op = "consume" /\ parserState = "thrown"
    /\ Len(parserTokens) >= 2
    /\ lastCall.before = Len(parserTokens) /\ parserCurrent = Len(parserTokens)
    /\ lastCall.reads = {Len(parserTokens) - 1}

----------------------------------------------------------------------------
(* Properties of the identifier and keyword tokens (SpecLex) *)

\* the indices where a maximal run of letters and digits starts with a letter
WordStarts ==
    {j \in 0..(Len(source) - 1) :
        IsAlpha(CharAt(j)) /\ (j = 0 \/ ~IsAlnum(CharAt(j - 1)))}

\* the index after the maximal run of letters and digits that holds index j
RECURSIVE WordEnd(_)
WordEnd(j) == IF j < Len(source) /\ IsAlnum(CharAt(j)) THEN WordEnd(j + 1) ELSE j

\* C24: in a source without string literals and comments every maximal run of
\* letters and digits that starts with a letter yields exactly one token, whose
\* lexeme is the whole run and whose kind is PRINT, IF or ELSE when the run is
\* exactly print, if or else and IDENTIFIER otherwise.  Stated for the sources
\* that end in a newline, where the lexer reads no character beyond the end of
\* the source.
C24_WordTokens ==
    (/\ lexState = "returned"
     /\ Len(source) >= 1
     /\ source[Len(source)] = "\n"
     /\ \A k \in 1..Len(source) : source[k] \notin {"\"", "#"})
        => \A j \in WordStarts :
               /\ Cardinality(TokensAt(j)) = 1
               /\ \A i \in TokensAt(j) :
                      /\ tokens[i].lexeme = SubSeq(source, j + 1, WordEnd(j))
                      /\ tokens[i].type = KeywordType(SubSeq(source, j + 1, WordEnd(j)))

\* the line "=i " was tokenized as EQUAL alone: the run i yielded no token
C24_Witness ==
    /\ lexState = "returned"
    /\ source = <<"=", "i", " ", "\n">>
    /\ Len(tokens) = 2
    /\ tokens[1].type = "EQUAL"
    /\ WordStarts = {1} /\ TokensAt(1) = {}

----------------------------------------------------------------------------
(* Properties of the reads of the source (SpecLex) *)

\* C25: no scanToken call reads a character of the source beyond its end:
\* every index read with source[...] is at most length - 1, or is length, the
\* terminator std::string lets operator[] read.  The lookahead of >, <, ! and =
\* and the lookahead loop of the number scanner are included, for every source,
\* the ones that end with an operator character or a digit among them.
C25_ReadsWithinSource == farRead <= Len(source)

\* the source ends with =, and tokenizeEqual has read the index after the terminator
C25_Witness ==
    /\ Len(source) >= 2
    /\ source[Len(source)] = "="
    /\ lastScan = "equal"
    /\ farRead = Len(source) + 1

----------------------------------------------------------------------------
(* Properties of the frame of a call *)

\* the events that happened inside the call of event i
InsideCall(i) == log[i].from .. (i - 1)

\* the call-site environment of the call of event i and its ancestors
SiteAndAncestors(i) ==
    {log[i].site} \cup {AncestorsOf(log[i].pre, log[i].site)[k] :
                           k \in 1..Len(AncestorsOf(log[i].pre, log[i].site))}

\* C26: a call leaves the values of the call-site environment and of all its
\* ancestors as they were, however it ends (a value, an error, the exhausted
\* stack): every name the call defines, the parameters included, and every
\* block merge inside it goes to an environment the call created, and those
\* environments are gone when the call is over.
C26_CallLeavesCallerUnchanged ==
    \A i \in LogIdx :
        log[i].ev = "call"
            => /\ Len(log[i].post) = Len(log[i].pre)
               /\ \A k \in SiteAndAncestors(i) :
                      log[i].post[k].values = log[i].pre[k].values
               /\ \A j \in InsideCall(i) :
                      /\ log[j].ev = "define" => log[j].env > Len(log[i].pre)
                      /\ log[j].ev = "blockExit" => log[j].parent > Len(log[i].pre)
               /\ log[i].stage = "body"
                      => \A n \in 1..Len(log[i].fn.parameters) :
                             /\ log[i].fn.parameters[n] \in DOMAIN log[i].localValues
                             /\ log[i].fn.parameters[n] \in DOMAIN log[i].pre[log[i].site].values
                                    => log[i].post[log[i].site].values[log[i].fn.parameters[n]]
                                       = log[i].pre[log[i].site].values[log[i].fn.parameters[n]]

\* a call with a parameter ended with a value after its body gave a name the
\* caller holds another value; the caller still has its own
C26_Witness ==
    \E i \in LogIdx :
        /\ log[i].ev = "call" /\ log[i].stage = "body" /\ log[i].sig = "value"
        /\ Len(log[i].fn.parameters) >= 1
        /\ \E j \in InsideCall(i) :
               /\ log[j].ev = "define"
               /\ log[j].name \in DOMAIN log[i].pre[log[i].site].values
               /\ log[j].val # log[i].pre[log[i].site].values[log[j].name]
               /\ log[i].post[log[i].site].values[log[j].name]
                      = log[i].pre[log[i].site].values[log[j].name]

----------------------------------------------------------------------------
(* Properties of the comparison token kinds as binary operators (SpecEval) *)

\* the comparison token kinds tokenizeGreater, tokenizeLess, tokenizeNotEqual
\* and tokenizeEqual add
LexerComparisonKinds ==
    {"EQUAL", "NOT_EQUAL", "LESS", "LESS_EQUAL", "GREATER", "GREATER_EQUAL"}

\* C27: a binary node whose operator is one of the comparison token kinds the
\* lexer adds yields an integer on two integers; it never fails with the
\* unsupported-operator error.
C27_ComparisonKindsSupported ==
    (result.sig # "none" /\ op \in LexerComparisonKinds)
        => /\ result.sig = "value"
           /\ result.msg # "Unsupported binary operator."

\* 3 != 5 has been evaluated: the unsupported-operator error was thrown
C27_Witness ==
    /\ op = "NOT_EQUAL" /\ leftVal = 3 /\ rightVal = 5
    /\ result.sig = "error"
    /\ result.msg = "Unsupported binary operator."

====
